---- MODULE Spec2Model ----
(***************************************************************************)
(* Model of facebook_uploader.py: the FacebookUploader object (browser      *)
(* handle, cookie file), the two upload flows upload_status and             *)
(* upload_reels stepped statement block by statement block, the manual      *)
(* login wait loop, and the ordered locator resolver.                       *)
(*                                                                          *)
(* The browser (Selenium WebDriver) and the site are the environment: each  *)
(* driver call may raise, a navigation lands on a URL the site chooses, an  *)
(* element lookup sees a page the site chooses.                             *)
(***************************************************************************)
EXTENDS Integers, Sequences, FiniteSets, TLC

\* ------------------------------------------------------------------ bounds
\* Flow invocations on one uploader object (interactive mode calls many).
MaxFlows == 2
\* Length of the locator lists the resolver is applied to in SpecResolve.
MaxLocators == 3
\* Largest timeout argument tried (resolver timeout, wait_for_login timeout).
MaxTimeout == 6
\* Elements returned by one find_elements call.
MaxElems == 2
\* The longest cookie list the session store is given.
MaxCookies == 2

\* ------------------------------------------------------- program constants
\* wait_for_login(timeout=180)
LoginTimeout == 180
\* time.sleep(2) in the wait_for_login loop
PollInterval == 2
\* _find_element_by_selectors(timeout=10)
DefaultFindTimeout == 10

None == "None"
\* self.driver = None
NoDriver == 0

\* ------------------------------------------------------------------- URLs
\* A URL is the sequence of its parts; `"login" in current_url` is a search
\* for the part.
HomeUrl == <<"https://www.", "facebook.com">>
ReelsUrl == <<"https://www.", "facebook.com", "/reel/create">>
LoginUrl == <<"https://www.", "facebook.com", "/", "login", "/">>
CheckpointUrl == <<"https://www.", "facebook.com", "/", "checkpoint", "/">>
BlankUrl == <<"about:blank">>

URLs == {HomeUrl, ReelsUrl, LoginUrl, CheckpointUrl, BlankUrl}

\* Where driver.get(target) or a refresh can end up: the page asked for, or the
\* login or checkpoint page the site redirects to.
Landing(target) == {target, LoginUrl, CheckpointUrl}

Contains(url, part) == \E i \in 1..Len(url) : url[i] = part

\* check_login_required: "login" in current_url or "checkpoint" in current_url
CheckLoginRequired(url) == Contains(url, "login") \/ Contains(url, "checkpoint")

\* The test that ends the wait_for_login loop (lines 315-316), changed so that
\* leaving the login page is enough.
LoginCompleted_AnySite(url) == ~(Contains(url, "login") \/ Contains(url, "checkpoint"))

\* The test that ends the wait_for_login loop (lines 315-316).
LoginCompleted(url) ==
    /\ ~(Contains(url, "login") \/ Contains(url, "checkpoint"))
    /\ Contains(url, "facebook.com")

\* ------------------------------------------------------------ the resolver
\* What one CSS selector finds on the page within the timeout.
ElemStates == {"absent", "present", "clickable"}

\* EC.element_to_be_clickable (visible) or EC.presence_of_element_located.
SelectorMatches(state, visible) ==
    IF visible THEN state = "clickable" ELSE state \in {"present", "clickable"}

\* The resolver loop from locator i on. page[i] is what locator i finds;
\* tried lists the locators waited on, waited sums the timeouts that expired.
RECURSIVE FindFrom(_, _, _, _, _, _)
FindFrom(page, timeout, visible, i, tried, waited) ==
    IF i > Len(page)
    THEN [element |-> None, index |-> 0, tried |-> tried, waited |-> waited]
    ELSE IF SelectorMatches(page[i], visible)
         THEN [element |-> page[i], index |-> i,
               tried |-> Append(tried, i), waited |-> waited]
         ELSE FindFrom(page, timeout, visible, i + 1,
                       Append(tried, i), waited + timeout)

\* The resolver with the bug of remembering the last match instead of
\* returning the first.
RECURSIVE FindLast(_, _, _, _, _, _)
FindLast(page, timeout, visible, i, tried, found) ==
    IF i > Len(page)
    THEN [element |-> IF found = 0 THEN None ELSE page[found], index |-> found,
          tried |-> tried, waited |-> 0]
    ELSE FindLast(page, timeout, visible, i + 1, Append(tried, i),
                  IF SelectorMatches(page[i], visible) THEN i ELSE found)

FindElementBySelectors_LastMatch(page, timeout, visible) ==
    FindLast(page, timeout, visible, 1, <<>>, 0)

\* The resolver with the bug of not waiting out a locator that fails.
FindElementBySelectors_NoWait(page, timeout, visible) ==
    FindFrom(page, 0, visible, 1, <<>>, 0)

\* _find_element_by_selectors(selectors, timeout, visible)
FindElementBySelectors(page, timeout, visible) ==
    FindFrom(page, timeout, visible, 1, <<>>, 0)

\* The selector tables of __init__ (self.selectors).
Selectors ==
    [status_input |->
        <<"div[data-testid='status-attachment-mentions-input']",
          "div[role='textbox'][data-testid='status-attachment-mentions-input']",
          "div[contenteditable='true'][data-testid='status-attachment-mentions-input']",
          "div[aria-label*='What\\'s on your mind']",
          "div[aria-label*='Apa yang Anda pikirkan']">>,
     photo_video_button |->
        <<"div[aria-label='Photo/video']", "div[aria-label='Foto/video']",
          "div[data-testid='photo-video-button']", "input[accept*='image']",
          "input[accept*='video']">>,
     file_input |->
        <<"input[type='file']", "input[accept*='video']", "input[accept*='image']">>,
     post_button |->
        <<"div[aria-label='Post']", "div[aria-label='Posting']",
          "div[data-testid='react-composer-post-button']",
          "div[role='button'][tabindex='0']">>,
     reels_upload_button |->
        <<"div[aria-label='Select video']", "div[aria-label='Pilih video']",
          "input[accept*='video']">>,
     reels_next_button |->
        <<"div[aria-label='Next']", "div[aria-label='Berikutnya']",
          "div[role='button']">>,
     reels_share_button |->
        <<"div[aria-label='Share to Feed']", "div[aria-label='Bagikan ke Feed']",
          "div[aria-label='Share']", "div[aria-label='Bagikan']">>]

\* The pages a lookup of one role can meet: one state per selector of its list.
PagesFor(role) == [1..Len(Selectors[role]) -> ElemStates]

\* ------------------------------------------------------------------ texts
\* A text is the sequence of its characters.
Texts == {<<>>, <<" ">>, <<"h", "i">>}

RECURSIVE LStrip(_)
LStrip(s) == IF s # <<>> /\ Head(s) = " " THEN LStrip(Tail(s)) ELSE s

RECURSIVE RStrip(_)
RStrip(s) ==
    IF s # <<>> /\ s[Len(s)] = " " THEN RStrip(SubSeq(s, 1, Len(s) - 1)) ELSE s

\* str.strip()
Strip(s) == RStrip(LStrip(s))

\* The files on disk that os.path.exists finds.
ExistingPaths == {"photo.png", "clip.mp4"}
PathExists(p) == p \in ExistingPaths

MediaPaths == {"", "missing.png", "photo.png"}
VideoPaths == {"clip.mp4", "missing.mp4"}

StatusArgs == [status_text : Texts, media_path : MediaPaths]
ReelsArgs == [video_path : VideoPaths, description : {<<>>, <<"h", "i">>}]
NoArgs == [none |-> TRUE]

\* ------------------------------------------------------------- exceptions
NoExc == [kind |-> "none", msg |-> ""]
SeleniumKinds ==
    {"TimeoutException", "NoSuchElementException", "WebDriverException",
     "SessionNotCreatedException"}

\* What a driver call raises when the browser fails.
DriverError == [kind |-> "WebDriverException", msg |-> "chrome not reachable"]
\* What _setup_driver re-raises when the browser cannot start.
SetupError == [kind |-> "SessionNotCreatedException", msg |-> "session not created"]
\* What the anti-detection script raises on a browser that did start.
ScriptError == [kind |-> "WebDriverException", msg |-> "javascript error"]
\* What driver.quit() raises.
QuitError == [kind |-> "OSError", msg |-> "quit failed"]
LoginTimeoutError == [kind |-> "TimeoutException", msg |-> "Timeout waiting for login"]
NotFoundError(what) == [kind |-> "NoSuchElementException", msg |-> what]

\* str(e): Selenium's exceptions print as "Message: <msg>\n", others as their
\* argument.
StrOf(e) ==
    IF e.kind \in SeleniumKinds THEN <<"Message: ", e.msg, "\n">> ELSE <<e.msg>>

\* ---------------------------------------------------------- upload results
NoResult == [none |-> TRUE]

\* The failure record with the parameters left out.
FailureResult_NoEcho(f, a, e) ==
    [success |-> FALSE,
     message |-> <<"Facebook status upload failed: ">> \o StrOf(e)]

\* The dict returned by the except branch of the flow (lines 449-454, 587-592).
FailureResult(f, a, e) ==
    IF f = "status"
    THEN [success |-> FALSE,
          message |-> <<"Facebook status upload failed: ">> \o StrOf(e),
          status_text |-> a.status_text, media_path |-> a.media_path]
    ELSE [success |-> FALSE,
          message |-> <<"Facebook Reels upload failed: ">> \o StrOf(e),
          video_path |-> a.video_path, description |-> a.description]

\* The dict returned at the end of the try block (lines 435-440, 573-578).
SuccessResult(f, a) ==
    IF f = "status"
    THEN [success |-> TRUE, message |-> <<"Status posted successfully">>,
          status_text |-> a.status_text, media_path |-> a.media_path]
    ELSE [success |-> TRUE, message |-> <<"Reels uploaded successfully">>,
          video_path |-> a.video_path, description |-> a.description]

\* ----------------------------------------------------------------- cookies
\* A JSON number or string as json.load returns it.
JInt(n) == [ty |-> "int", whole |-> n]
JFloat(n, t) == [ty |-> "float", whole |-> n, tenths |-> t]
JStr(digits, n) == [ty |-> "str", numeric |-> digits, whole |-> n]

\* int(x) with the bug of handing the value back as it came.
IntOf_Keep(x) == [ok |-> TRUE, val |-> x]

\* int(x): a float is truncated, a string of digits is parsed, any other
\* string raises ValueError.
IntOf(x) ==
    CASE x.ty = "int" -> [ok |-> TRUE, val |-> JInt(x.whole)]
      [] x.ty = "float" -> [ok |-> TRUE, val |-> JInt(x.whole)]
      [] x.ty = "str" ->
            IF x.numeric THEN [ok |-> TRUE, val |-> JInt(x.whole)]
            ELSE [ok |-> FALSE, val |-> JInt(0)]

Has(c, k) == k \in DOMAIN c
Get(c, k, default) == IF Has(c, k) THEN c[k] ELSE default

\* The expiry of clean_cookie (lines 246-249): an integer when the entry has
\* expiry or expires (ok is false when int() raises), absent otherwise.
CleanExpiry(c) ==
    IF Has(c, "expiry") THEN [has |-> TRUE] @@ IntOf(c.expiry)
    ELSE IF Has(c, "expires") THEN [has |-> TRUE] @@ IntOf(c.expires)
    ELSE [has |-> FALSE, ok |-> TRUE, val |-> JInt(0)]

\* clean_cookie (lines 239-254), for an entry whose int() does not raise.
CleanCookie(c) ==
    LET base == [name |-> c.name, value |-> c.value,
                 domain |-> Get(c, "domain", ".facebook.com"),
                 path |-> Get(c, "path", "/")]
        e == CleanExpiry(c)
        withExpiry == IF e.has THEN base @@ [expiry |-> e.val] ELSE base
        withSecure == IF Has(c, "secure")
                      THEN withExpiry @@ [secure |-> c.secure] ELSE withExpiry
    IN IF Has(c, "httpOnly") THEN withSecure @@ [httpOnly |-> c.httpOnly]
       ELSE withSecure

\* The injection loop (lines 235-261) from entry i on: rejected holds the
\* indexes of the entries driver.add_cookie refuses. offered lists what was
\* handed to add_cookie, accepted what the browser took.
RECURSIVE InjectFrom(_, _, _, _)
InjectFrom(cookies, rejected, i, acc) ==
    IF i > Len(cookies) THEN acc
    ELSE LET c == cookies[i] IN
         IF ~(Has(c, "name") /\ Has(c, "value")) \/ ~CleanExpiry(c).ok
         THEN InjectFrom(cookies, rejected, i + 1, acc)
         ELSE IF i \in rejected
         THEN InjectFrom(cookies, rejected, i + 1,
                         [acc EXCEPT !.offered = Append(@, CleanCookie(c))])
         ELSE InjectFrom(cookies, rejected, i + 1,
                         [added |-> acc.added + 1,
                          offered |-> Append(acc.offered, CleanCookie(c)),
                          accepted |-> Append(acc.accepted, CleanCookie(c))])

\* The injection loop with the bug of stopping at the first entry the browser
\* refuses.
InjectCookies_AbortOnReject(cookies, rejected) ==
    LET stop == IF rejected \cap (1..Len(cookies)) = {} THEN Len(cookies) + 1
                ELSE CHOOSE i \in rejected \cap (1..Len(cookies)) :
                        \A j \in rejected \cap (1..Len(cookies)) : i <= j
    IN InjectFrom(SubSeq(cookies, 1, stop - 1), {}, 1,
                  [added |-> 0, offered |-> <<>>, accepted |-> <<>>])

InjectCookies(cookies, rejected) ==
    InjectFrom(cookies, rejected, 1, [added |-> 0, offered |-> <<>>, accepted |-> <<>>])

\* The cookie file: absent, unparseable, a dict with timestamp and cookies, or
\* a bare list.
NoFile == [kind |-> "absent"]
CorruptFile == [kind |-> "corrupt"]
DictFile(ts, cs) == [kind |-> "dict", timestamp |-> ts, cookies |-> cs]
ListFile(cs) == [kind |-> "list", cookies |-> cs]

\* An entry without a name: load_cookies passes over it.
CkNameless == [value |-> "100"]
CkXs == [name |-> "xs", value |-> "tok", expiry |-> JFloat(50, 5), secure |-> TRUE]
\* The cookie the site sets when the user completes the login.
CkSession == [name |-> "fr", value |-> "new", domain |-> ".facebook.com",
              path |-> "/", expiry |-> JInt(90)]

\* The cookie files a flow can find when it starts.
FlowFiles ==
    {NoFile, CorruptFile, DictFile(0, <<>>), DictFile(0, <<CkNameless, CkXs>>)}

\* The list load_cookies iterates (lines 221-224), for a file that parses.
FileCookies(file) == file.cookies

\* ------------------------------------------------------------------ state
VARIABLES
    driver,         \* self.driver: NoDriver or the browser instance it refers to
    wait,           \* self.wait: NoDriver or the instance its WebDriverWait is on
    launched,       \* browser instances started so far (they are numbered)
    live,           \* the instances whose process is running
    quitCalls,      \* per instance, the calls of quit() on it
    url,            \* driver.current_url
    jar,            \* the cookies the browser holds (driver.get_cookies())
    cookieFile,     \* cookies/facebook_cookies.json
    file0,          \* the cookie file as it was when this invocation began
    flowsStarted,   \* flow invocations so far
    flow,           \* the flow in progress: "status", "reels" or "none"
    args,           \* its parameters
    pc,             \* the statement block it is at
    cookies_loaded, \* the local cookies_loaded
    exc,            \* the exception in flight or being handled
    result,         \* the dict of the return statement executed
    built,          \* return statements executed in this invocation
    trace,          \* what this invocation did so far, in order
    acquired,       \* the instance this invocation launched, or NoDriver
    saves,          \* save_cookies calls in this invocation
    elapsed,        \* wait_for_login: time.time() - start_time
    timeout,        \* wait_for_login: its timeout parameter
    find_in,        \* the resolver called on its own: its arguments
    find_out,       \* and what it returned
    shots,          \* the screenshot files this invocation wrote
    store_in,       \* a session store method called on its own: its inputs
    store_out,      \* and what it returned, logged and did
    argv,           \* main: the parsed command line
    main_pc,        \* main: the statement it is at
    exit_code,      \* the exit code of the process once it has ended
    menu            \* interactive mode: what the user typed at the last prompt

vars == <<driver, wait, launched, live, quitCalls, url, jar, cookieFile, file0,
          flowsStarted,
          flow, args, pc, cookies_loaded, exc, result, built, trace, acquired,
          saves, elapsed, timeout, find_in, find_out, shots, store_in,
          store_out, argv, main_pc, exit_code, menu>>

browserVars == <<driver, wait, launched, live, quitCalls, acquired>>
callVars == <<flowsStarted, flow, args, file0>>
waitVars == <<elapsed, timeout>>
findVars == <<find_in, find_out>>
storeVars == <<store_in, store_out>>
mainVars == <<argv, main_pc, exit_code, menu>>
apartVars == <<findVars, storeVars, mainVars>>
returnVars == <<result, built>>

Instances == 1..MaxFlows

\* int(time.time()): the clock is read in epochs, one per flow invocation
\* (a flow sleeps for seconds between its start and any later start); files
\* left by an earlier run carry epoch 0.
Now == flowsStarted

\* The resolver's arguments when nobody called it.
NoFind == [page |-> <<>>, timeout |-> 0, visible |-> TRUE]
NotCalled == [element |-> None, index |-> 0, tried |-> <<>>, waited |-> 0,
              called |-> FALSE]

\* __init__ (lines 45-48), and the environment before any flow.
InitUploader ==
    /\ driver = NoDriver
    /\ wait = NoDriver
    /\ launched = 0
    /\ live = {}
    /\ quitCalls = [i \in Instances |-> 0]
    /\ url = BlankUrl
    /\ jar = <<>>

InitIdle ==
    /\ cookieFile \in FlowFiles
    /\ file0 = cookieFile
    /\ flowsStarted = 0
    /\ flow = "none"
    /\ args = NoArgs
    /\ pc = "idle"
    /\ cookies_loaded = FALSE
    /\ exc = NoExc
    /\ result = NoResult
    /\ built = 0
    /\ trace = <<>>
    /\ acquired = NoDriver
    /\ saves = 0
    /\ shots = <<>>
    /\ elapsed = 0
    /\ timeout = 0

InitNoFind == find_in = NoFind /\ find_out = NotCalled

\* No session store method was called on its own.
NoStoreCall == [op |-> "none"]
InitNoStore == store_in = NoStoreCall /\ store_out = NoStoreCall

\* The uploader is driven through its methods, not through main.
NoMain == [none |-> TRUE]
InitNoMain ==
    /\ argv = NoMain
    /\ main_pc = "none"
    /\ exit_code = 0
    /\ menu = NoMain

Init == InitUploader /\ InitIdle /\ InitNoFind /\ InitNoStore /\ InitNoMain

\* ------------------------------------------------------------ flow steps
\* The next block, with what this one did appended to the trace.
Goto(next, events) ==
    /\ pc' = next
    /\ trace' = trace \o events
    /\ exc' = exc

\* An exception leaves the try block of the flow (lines 442, 580); a method
\* called on its own lets it reach the caller.
Throw(e, events) ==
    /\ pc' = IF flow = "none" THEN "call_raised" ELSE "except"
    /\ trace' = trace \o events
    /\ exc' = e

\* wait_for_login is left: its locals are gone.
WaitLeft == elapsed' = 0 /\ timeout' = 0

\* The caller invokes upload_status(status_text, media_path) or
\* upload_reels(video_path, description) on the uploader.
Call ==
    /\ pc \in {"idle", "returned"}
    /\ flowsStarted < MaxFlows
    /\ \/ flow' = "status" /\ args' \in StatusArgs
       \/ flow' = "reels" /\ args' \in ReelsArgs
    /\ flowsStarted' = flowsStarted + 1
    /\ file0' = cookieFile
    /\ pc' = "setup"
    /\ cookies_loaded' = FALSE
    /\ exc' = NoExc
    /\ result' = NoResult
    /\ built' = 0
    /\ trace' = <<>>
    /\ acquired' = NoDriver
    /\ saves' = 0
    /\ shots' = <<>>
    /\ UNCHANGED <<driver, wait, launched, live, quitCalls, url, jar, cookieFile,
                   waitVars, apartVars>>

\* _setup_driver with its failure handed straight to the caller of the flow.
SetupFailed_Propagates ==
    /\ pc' = "raised"
    /\ trace' = trace \o <<"launch_failed">>
    /\ exc' = SetupError
    /\ UNCHANGED <<browserVars, url, jar>>

\* _setup_driver, the browser process cannot start (lines 165-174 raise): the
\* handle is left as it was, the exception is logged and re-raised (183-185)
\* inside the try block of the flow.
SetupFailed ==
    /\ Throw(SetupError, <<"launch_failed">>)
    /\ UNCHANGED <<browserVars, url, jar>>

\* _setup_driver (lines 133-185), called at lines 338 and 474.
SetupDriver ==
    /\ pc = "setup"
    /\ \/ SetupFailed
       \/ \* the browser starts and the handle is assigned (line 174) ...
          /\ launched' = launched + 1
          /\ driver' = launched + 1
          /\ acquired' = launched + 1
          /\ live' = live \cup {launched + 1}
          /\ url' = BlankUrl
          /\ jar' = <<>>
          /\ UNCHANGED quitCalls
          /\ \/ \* self.wait = WebDriverWait(self.driver, 30) (line 179)
                /\ wait' = launched + 1
                /\ Goto("load_cookies", <<"launch">>)
             \/ \* ... but the anti-detection script raises (line 177)
                /\ UNCHANGED wait
                /\ Throw(ScriptError, <<"launch">>)
    /\ UNCHANGED <<cookieFile, callVars, cookies_loaded, returnVars, saves,
                   waitVars, shots, apartVars>>

\* The page the flow works on: self.home_url or self.reels_url.
Target == IF flow = "status" THEN HomeUrl ELSE ReelsUrl

\* One "inject" event per cookie handed to driver.add_cookie.
InjectEvents(offered) == [i \in 1..Len(offered) |-> "inject"]

\* load_cookies (lines 211-268), called at lines 341 and 477. Nothing it meets
\* leaves it as an exception: it returns False instead.
LoadCookies ==
    /\ pc = "load_cookies"
    /\ \/ \* no file (213-215), unparseable file (266-268), no cookies (226-228)
          /\ \/ cookieFile.kind \in {"absent", "corrupt"}
             \/ cookieFile.kind \in {"dict", "list"} /\ FileCookies(cookieFile) = <<>>
          /\ cookies_loaded' = FALSE
          /\ Goto("navigate", <<"restore">>)
          /\ UNCHANGED <<url, jar>>
       \/ \* driver.get(home_url) raises (231): caught at 266
          /\ cookieFile.kind \in {"dict", "list"} /\ FileCookies(cookieFile) # <<>>
          /\ cookies_loaded' = FALSE
          /\ Goto("navigate", <<"restore", "restore_nav_failed">>)
          /\ UNCHANGED <<url, jar>>
       \/ \* the cookies are injected one by one (235-264)
          /\ cookieFile.kind \in {"dict", "list"} /\ FileCookies(cookieFile) # <<>>
          /\ \E landed \in Landing(HomeUrl),
                rejected \in SUBSET (1..Len(FileCookies(cookieFile))) :
                LET r == InjectCookies(FileCookies(cookieFile), rejected) IN
                /\ url' = landed
                /\ jar' = jar \o r.accepted
                /\ cookies_loaded' = (r.added > 0)
                /\ Goto("navigate",
                        <<"restore", "restore_nav">> \o InjectEvents(r.offered))
    /\ UNCHANGED <<browserVars, cookieFile, callVars, returnVars, saves,
                   waitVars, shots, apartVars>>

\* driver.get(target); time.sleep (lines 345-346, 481-482)
Navigate ==
    /\ pc = "navigate"
    /\ \/ \E landed \in Landing(Target) :
             /\ url' = landed
             /\ Goto("check_login", <<"navigate">>)
       \/ Throw(DriverError, <<"navigate_failed">>) /\ UNCHANGED url
    /\ UNCHANGED <<browserVars, jar, cookieFile, callVars, cookies_loaded,
                   returnVars, saves, waitVars, shots, apartVars>>

\* Whether the flow refreshes before its second login check (lines 350, 486),
\* with the bug of refreshing whether or not cookies were injected.
RefreshWanted_Always(loaded) == TRUE

\* Whether the flow refreshes before its second login check (lines 350, 486).
RefreshWanted(loaded) == loaded

\* if self.check_login_required(): if cookies_loaded: ... (lines 349-350, 485-486)
CheckLogin ==
    /\ pc = "check_login"
    /\ \/ /\ CheckLoginRequired(url)
          /\ IF RefreshWanted(cookies_loaded)
             THEN Goto("refresh", <<"needs_login">>)
             ELSE Goto("check_login_again", <<"needs_login">>)
       \/ /\ ~CheckLoginRequired(url)
          /\ Goto("content", <<"no_login_needed">>)
       \/ Throw(DriverError, <<"check_login_failed">>)
    /\ UNCHANGED <<browserVars, url, jar, cookieFile, callVars, cookies_loaded,
                   returnVars, saves, waitVars, shots, apartVars>>

\* self.driver.refresh(); time.sleep (lines 351-353, 487-489)
Refresh ==
    /\ pc = "refresh"
    /\ \/ \E landed \in Landing(Target) :
             /\ url' = landed
             /\ Goto("check_login_again", <<"refresh">>)
       \/ Throw(DriverError, <<"refresh_failed">>) /\ UNCHANGED url
    /\ UNCHANGED <<browserVars, jar, cookieFile, callVars, cookies_loaded,
                   returnVars, saves, waitVars, shots, apartVars>>

\* if self.check_login_required(): self.wait_for_login() (lines 355-356,
\* 491-492): the call passes no timeout, so the default applies.
CheckLoginAgain ==
    /\ pc = "check_login_again"
    /\ \/ /\ CheckLoginRequired(url)
          /\ timeout' = LoginTimeout
          /\ Goto("wait_for_login", <<"needs_login">>)
       \/ /\ ~CheckLoginRequired(url)
          /\ UNCHANGED timeout
          /\ Goto("content", <<"no_login_needed">>)
       \/ Throw(DriverError, <<"check_login_failed">>) /\ UNCHANGED timeout
    /\ UNCHANGED <<browserVars, url, jar, cookieFile, callVars, cookies_loaded,
                   returnVars, saves, elapsed, shots, apartVars>>

\* ------------------------------------------------------- wait_for_login
\* What save_cookies writes, with the bug of writing an empty list.
SavedFile_Empty(cookies, now) == DictFile(now, <<>>)

\* What save_cookies writes (lines 275-281): the timestamp and the cookies
\* driver.get_cookies() returned.
SavedFile(cookies, now) == DictFile(now, cookies)

\* What a save_cookies call leaves behind (lines 272-286). It returns nothing
\* and raises nothing: get_cookies or open raising leaves the file as it was,
\* a write that fails after open(path, 'w') truncated the file leaves it
\* unparseable.
SaveOutcomes(file, cookies, now) ==
    {[file |-> SavedFile(cookies, now), event |-> "save"],
     [file |-> file, event |-> "save_failed"],
     [file |-> CorruptFile, event |-> "save_failed"]}

\* The cookies the browser holds once the user has logged in: the site has
\* set its session cookie.
JarsAfterLogin == {jar \o <<CkSession>>}

\* The loop condition of wait_for_login with the bug of never giving up.
KeepWaiting_Forever(e, t) == TRUE

\* while time.time() - start_time < timeout (line 311)
KeepWaiting(e, t) == e < t

\* wait_for_login, lines 306-309: start_time = time.time()
WaitForLoginEnter ==
    /\ pc = "wait_for_login"
    /\ elapsed' = 0
    /\ Goto("wait_loop", <<"await_login">>)
    /\ UNCHANGED <<browserVars, url, jar, cookieFile, callVars, cookies_loaded,
                   returnVars, saves, timeout, shots, apartVars>>

\* One pass of the wait_for_login loop (lines 311-321). The user acts on the
\* browser between two polls, so each poll reads a URL of the user's making.
WaitPoll ==
    /\ pc = "wait_loop"
    /\ KeepWaiting(elapsed, timeout)
    /\ \/ \* current_url raises
          /\ Throw(DriverError, <<"poll_failed">>)
          /\ WaitLeft
          /\ UNCHANGED <<url, jar, cookieFile, saves>>
       \/ \E seen \in URLs :
             /\ url' = seen
             /\ IF LoginCompleted(seen)
                THEN \* save_cookies(); return True (317-319)
                     /\ \E held \in JarsAfterLogin :
                           /\ jar' = held
                           /\ \E saved \in SaveOutcomes(cookieFile, held, Now) :
                                 /\ cookieFile' = saved.file
                                 /\ trace' = trace \o <<"login_ok", saved.event>>
                     /\ saves' = saves + 1
                     /\ pc' = IF flow = "none" THEN "call_returned"
                              ELSE "navigate_after_login"
                     /\ WaitLeft
                     /\ UNCHANGED exc
                ELSE \* time.sleep(2) (321)
                     /\ elapsed' = elapsed + PollInterval
                     /\ UNCHANGED <<pc, trace, exc, jar, cookieFile, saves, timeout>>
    /\ UNCHANGED <<browserVars, callVars, cookies_loaded, returnVars, shots, apartVars>>

\* raise TimeoutException("Timeout waiting for login") (line 323)
WaitTimeout ==
    /\ pc = "wait_loop"
    /\ ~KeepWaiting(elapsed, timeout)
    /\ Throw(LoginTimeoutError, <<"login_timeout">>)
    /\ WaitLeft
    /\ UNCHANGED <<browserVars, url, jar, cookieFile, callVars, cookies_loaded,
                   returnVars, saves, shots, apartVars>>

\* self.driver.get(target); time.sleep (lines 357-358, 493-494)
NavigateAfterLogin ==
    /\ pc = "navigate_after_login"
    /\ \/ \E landed \in Landing(Target) :
             /\ url' = landed
             /\ Goto("content", <<"navigate_again">>)
       \/ Throw(DriverError, <<"navigate_again_failed">>) /\ UNCHANGED url
    /\ UNCHANGED <<browserVars, jar, cookieFile, callVars, cookies_loaded,
                   returnVars, saves, waitVars, shots, apartVars>>

\* ------------------------------------------------------- content steps
\* What the blocks between login and the return leave untouched.
ContentFrame ==
    UNCHANGED <<browserVars, url, jar, cookieFile, callVars, cookies_loaded,
                returnVars, saves, waitVars, shots, apartVars>>

\* An editable region of a find_elements list: whether it is displayed, and
\* whether click and send_keys work on it.
TextInputs == [displayed : BOOLEAN, usable : BOOLEAN]

\* A text shown by a div, as the sequence of its words.
ButtonTexts == {<<"Post">>, <<"Share", " now">>, <<"Cancel">>}
\* A div of a find_elements list.
Buttons == [text : ButtonTexts, enabled : BOOLEAN, displayed : BOOLEAN]
\* A file input of a find_elements list: whether its accept attribute
\* mentions video.
FileInputs == [accepts_video : BOOLEAN]

\* str.lower(), word by word.
LowerWord(w) ==
    CASE w = "Post" -> "post"
      [] w = "Share" -> "share"
      [] w = "Cancel" -> "cancel"
      [] OTHER -> w
Lower(text) == [i \in 1..Len(text) |-> LowerWord(text[i])]

RECURSIVE SeqsUpTo(_, _)
SeqsUpTo(S, n) ==
    IF n = 0 THEN {<<>>}
    ELSE LET shorter == SeqsUpTo(S, n - 1) IN
         shorter \cup {Append(q, x) : q \in {r \in shorter : Len(r) = n - 1}, x \in S}

\* The index a loop over a find_elements list stops at: the first of the
\* indexes that pass its test, 0 when none does.
FirstIndex(hits) ==
    IF hits = {} THEN 0 ELSE CHOOSE i \in hits : \A j \in hits : i <= j

\* The lookup of the composer text box with the bug of going on without it.
FindStatusInput_Optional ==
    /\ pc = "content" /\ flow = "status"
    /\ \E page \in PagesFor("status_input") :
          LET r == FindElementBySelectors(page, DefaultFindTimeout, TRUE) IN
          IF r.element = None
          THEN Goto("add_media", <<"find_status_input">>)
          ELSE \/ Goto("add_media", <<"find_status_input", "click_status_input">>)
               \/ Throw(DriverError, <<"find_status_input", "click_failed">>)
    /\ ContentFrame

\* Status flow, lines 361-369: the composer text box is required, then clicked.
FindStatusInput ==
    /\ pc = "content" /\ flow = "status"
    /\ \E page \in PagesFor("status_input") :
          LET r == FindElementBySelectors(page, DefaultFindTimeout, TRUE) IN
          IF r.element = None
          THEN Throw(NotFoundError("Status input not found"), <<"find_status_input">>)
          ELSE \/ Goto("add_media", <<"find_status_input", "click_status_input">>)
               \/ Throw(DriverError, <<"find_status_input", "click_failed">>)
    /\ ContentFrame

\* The media step with the bug of looking for the file input only when the
\* attach control was found.
FindPhotoButton_GatesInput ==
    /\ pc = "add_media"
    /\ IF args.media_path # "" /\ PathExists(args.media_path)
       THEN \E page \in PagesFor("photo_video_button") :
               LET r == FindElementBySelectors(page, 5, TRUE) IN
               IF r.element = None
               THEN Goto("add_text", <<"find_photo_button">>)
               ELSE \/ Goto("file_input", <<"find_photo_button", "click_photo_button">>)
                    \/ Throw(DriverError, <<"find_photo_button", "click_failed">>)
       ELSE Goto("add_text", <<>>)
    /\ ContentFrame

\* Status flow, lines 372-380: the media-attach control, clicked when found.
FindPhotoButton ==
    /\ pc = "add_media"
    /\ IF args.media_path # "" /\ PathExists(args.media_path)
       THEN \E page \in PagesFor("photo_video_button") :
               LET r == FindElementBySelectors(page, 5, TRUE) IN
               IF r.element = None
               THEN Goto("file_input", <<"find_photo_button">>)
               ELSE \/ Goto("file_input", <<"find_photo_button", "click_photo_button">>)
                    \/ Throw(DriverError, <<"find_photo_button", "click_failed">>)
       ELSE Goto("add_text", <<>>)
    /\ ContentFrame

\* Status flow, lines 383-391: the file input, fed the absolute path when found.
FindFileInput ==
    /\ pc = "file_input"
    /\ \E page \in PagesFor("file_input") :
          LET r == FindElementBySelectors(page, DefaultFindTimeout, FALSE) IN
          IF r.element = None
          THEN Goto("add_text", <<"find_file_input">>)
          ELSE \/ Goto("add_text", <<"find_file_input", "feed_file">>)
               \/ Throw(DriverError, <<"find_file_input", "feed_failed">>)
    /\ ContentFrame

\* The text typed: status_text or description.
FlowText == IF flow = "status" THEN args.status_text ELSE args.description

\* The loop with the bug of stopping at the first displayed region, whether
\* or not it took the text.
TypedInto_FirstDisplayed(inputs) ==
    FirstIndex({i \in 1..Len(inputs) : inputs[i].displayed})

\* The loop over the editable regions (lines 400-409, 530-539): the index of
\* the region the text went into, the first that is displayed and takes the
\* click and the keys; 0 when the loop ends without a break.
TypedInto(inputs) ==
    FirstIndex({i \in 1..Len(inputs) : inputs[i].displayed /\ inputs[i].usable})

\* Lines 394-409 and 524-539: the text goes into the first editable region
\* that is displayed and takes the click and the keys.
AddText ==
    /\ pc = "add_text"
    /\ LET next == IF flow = "status" THEN "find_submit" ELSE "next_button" IN
       IF Strip(FlowText) # <<>>
       THEN \/ \E inputs \in SeqsUpTo(TextInputs, MaxElems) :
                  IF TypedInto(inputs) = 0
                  THEN Goto(next, <<"find_text_inputs">>)
                  ELSE Goto(next, <<"find_text_inputs", "type_text">>)
            \/ Throw(DriverError, <<"find_text_inputs_failed">>)
       ELSE Goto(next, <<>>)
    /\ ContentFrame

\* Reel flow, lines 497-500: the video-select control.
FindUpload ==
    /\ pc = "content" /\ flow = "reels"
    /\ \/ \E page \in PagesFor("reels_upload_button") :
             LET r == FindElementBySelectors(page, 15, FALSE) IN
             IF r.element = None
             THEN Goto("upload_fallback", <<"find_upload">>)
             ELSE Goto("feed_video", <<"find_upload">>)
       \/ Throw(DriverError, <<"find_upload_failed">>)
    /\ ContentFrame

\* Reel flow, lines 502-512: any file input whose accept mentions video.
UploadFallback ==
    /\ pc = "upload_fallback"
    /\ \/ \E inputs \in SeqsUpTo(FileInputs, MaxElems) :
             LET AcceptsVideo(e) == e.accepts_video IN
             IF FirstIndex({i \in 1..Len(inputs) : AcceptsVideo(inputs[i])}) = 0
             THEN Throw(NotFoundError("Video upload element not found"),
                        <<"scan_file_inputs">>)
             ELSE Goto("feed_video", <<"scan_file_inputs">>)
       \/ Throw(DriverError, <<"scan_file_inputs_failed">>)
    /\ ContentFrame

\* Reel flow, lines 515-521: the path is fed, then a fixed wait.
FeedVideo ==
    /\ pc = "feed_video"
    /\ \/ Goto("add_text", <<"feed_file">>)
       \/ Throw(DriverError, <<"feed_failed">>)
    /\ ContentFrame

\* Reel flow, lines 542-546: the optional next control.
NextButton ==
    /\ pc = "next_button"
    /\ \E page \in PagesFor("reels_next_button") :
          LET r == FindElementBySelectors(page, 5, TRUE) IN
          IF r.element = None
          THEN Goto("find_submit", <<"find_next">>)
          ELSE \/ Goto("find_submit", <<"find_next", "click_next">>)
               \/ Throw(DriverError, <<"find_next", "click_failed">>)
    /\ ContentFrame

\* Lines 413 and 550: the submit control by its locator list.
FindSubmit ==
    /\ pc = "find_submit"
    /\ LET role == IF flow = "status" THEN "post_button" ELSE "reels_share_button"
           patience == IF flow = "status" THEN DefaultFindTimeout ELSE 15 IN
       \/ \E page \in PagesFor(role) :
             LET r == FindElementBySelectors(page, patience, TRUE) IN
             IF r.element = None
             THEN Goto("submit_fallback", <<"find_submit">>)
             ELSE Goto("submit", <<"find_submit">>)
       \/ Throw(DriverError, <<"find_submit_failed">>)
    /\ ContentFrame

\* The text test of the status flow with the bug of accepting a word inside
\* a longer text.
TextSelects_Loose(f, text) ==
    \E word \in {"share", "bagikan", "post", "publish", "posting"} :
        Contains(Lower(text), word)

\* The text test of the fallback scan: equality with a word in the status
\* flow (line 419), a word contained in the text in the reel flow (line 557).
TextSelects(f, text) ==
    IF f = "status"
    THEN Lower(text) \in {<<"post">>, <<"posting">>, <<"share">>, <<"bagikan">>}
    ELSE \E word \in {"share", "bagikan", "post", "publish"} :
            Contains(Lower(text), word)

\* The fallback loop over all divs (lines 417-422, 554-560): the index of the
\* first whose text passes the test and that is enabled and displayed; 0 when
\* the loop ends without a break.
ScanButtons(f, divs) ==
    FirstIndex({i \in 1..Len(divs) :
                  TextSelects(f, divs[i].text) /\ divs[i].enabled /\ divs[i].displayed})

\* Lines 415-425 and 552-563: the scan of all divs for the submit control.
SubmitFallback ==
    /\ pc = "submit_fallback"
    /\ \/ \E divs \in SeqsUpTo(Buttons, MaxElems) :
             IF ScanButtons(flow, divs) = 0
             THEN Throw(NotFoundError(IF flow = "status" THEN "Post button not found"
                                      ELSE "Share button not found"),
                        <<"scan_buttons">>)
             ELSE Goto("submit", <<"scan_buttons">>)
       \/ Throw(DriverError, <<"scan_buttons_failed">>)
    /\ ContentFrame

\* The last step with the bug of saving the cookies after every upload.
Submit_Saves ==
    /\ pc = "submit"
    /\ \/ /\ Goto("finally", <<"submit_click", "return">>)
          /\ result' = SuccessResult(flow, args)
          /\ built' = built + 1
          /\ cookieFile' = SavedFile(jar, Now)
       \/ /\ Throw(DriverError, <<"submit_failed">>)
          /\ UNCHANGED <<returnVars, cookieFile>>
    /\ UNCHANGED <<browserVars, url, jar, callVars, cookies_loaded,
                   saves, waitVars, shots, apartVars>>

\* Lines 428-440 and 566-578: the forced click, then the success dict.
Submit ==
    /\ pc = "submit"
    /\ \/ /\ Goto("finally", <<"submit_click", "return">>)
          /\ result' = SuccessResult(flow, args)
          /\ built' = built + 1
       \/ /\ Throw(DriverError, <<"submit_failed">>)
          /\ UNCHANGED returnVars
    /\ UNCHANGED <<browserVars, url, jar, cookieFile, callVars, cookies_loaded,
                   saves, waitVars, shots, apartVars>>

\* ------------------------------------------------------ except and finally
\* take_screenshot (lines 599-612): save_screenshot on self.driver, any
\* exception (no driver, dead browser, write error) caught and logged.
ScreenshotOutcomes ==
    IF driver \in live THEN {"screenshot", "screenshot_failed"}
    ELSE {"screenshot_failed"}

\* The file name the except clause passes to take_screenshot (lines 447, 585).
ScreenshotName(f, now) == <<"facebook_", f, "_error_", now, ".png">>

\* The except clause with the bug of returning without take_screenshot.
Except_Silent ==
    /\ pc = "except"
    /\ pc' = "finally"
    /\ trace' = Append(trace, "return")
    /\ result' = FailureResult(flow, args, exc)
    /\ built' = built + 1
    /\ UNCHANGED <<browserVars, url, jar, cookieFile, callVars, cookies_loaded,
                   exc, saves, waitVars, shots, apartVars>>

\* except Exception as e (lines 442-454, 580-592)
Except ==
    /\ pc = "except"
    /\ \E shot \in ScreenshotOutcomes :
          /\ pc' = "finally"
          /\ trace' = trace \o <<shot, "return">>
          /\ shots' = IF shot = "screenshot"
                      THEN Append(shots, ScreenshotName(flow, Now))
                      ELSE shots
    /\ result' = FailureResult(flow, args, exc)
    /\ built' = built + 1
    /\ UNCHANGED <<browserVars, url, jar, cookieFile, callVars, cookies_loaded,
                   exc, saves, waitVars, apartVars>>

\* The guard of the finally block, written on self.wait instead of self.driver.
QuitWanted_IfWait(d, w) == w # NoDriver

\* if self.driver: (lines 457, 595)
QuitWanted(d, w) == d # NoDriver

\* finally (lines 456-459, 594-597): quit() on whatever self.driver refers to.
\* A quit() that raises replaces the pending return and leaves the process
\* as it was. The page and the cookies go with the handle.
Finally ==
    /\ pc = "finally"
    /\ IF QuitWanted(driver, wait)
       THEN /\ quitCalls' = [quitCalls EXCEPT ![driver] = @ + 1]
            /\ \/ /\ live' = live \ {driver}
                  /\ pc' = "returned"
                  /\ UNCHANGED <<result, exc>>
               \/ /\ live' = live
                  /\ pc' = "raised"
                  /\ result' = NoResult
                  /\ exc' = QuitError
            /\ trace' = trace \o <<"quit">>
            /\ url' = BlankUrl
            /\ jar' = <<>>
       ELSE /\ pc' = "returned"
            /\ UNCHANGED <<quitCalls, live, result, exc, trace, url, jar>>
    /\ UNCHANGED <<driver, wait, launched, acquired, cookieFile, callVars,
                   cookies_loaded, built, saves, waitVars, shots, apartVars>>

\* ------------------------------------------------------------ the program
Next ==
    \/ Call
    \/ SetupDriver
    \/ LoadCookies
    \/ Navigate
    \/ CheckLogin
    \/ Refresh
    \/ CheckLoginAgain
    \/ WaitForLoginEnter
    \/ WaitPoll
    \/ WaitTimeout
    \/ NavigateAfterLogin
    \/ FindStatusInput
    \/ FindPhotoButton
    \/ FindFileInput
    \/ AddText
    \/ FindUpload
    \/ UploadFallback
    \/ FeedVideo
    \/ NextButton
    \/ FindSubmit
    \/ SubmitFallback
    \/ Submit
    \/ Except
    \/ Finally

Spec == Init /\ [][Next]_vars

\* ------------------------------------------- the resolver called on its own
\* _find_element_by_selectors on any locator list: page[i] is what locator i
\* finds within the timeout.
ResolveInputs ==
    [page : SeqsUpTo(ElemStates, MaxLocators), timeout : 0..MaxTimeout,
     visible : BOOLEAN]

InitResolve ==
    /\ InitUploader
    /\ InitIdle
    /\ cookieFile = NoFile
    /\ find_in \in ResolveInputs
    /\ find_out = NotCalled
    /\ InitNoStore
    /\ InitNoMain

ResolveFrame ==
    UNCHANGED <<browserVars, url, jar, cookieFile, callVars, pc, cookies_loaded,
                exc, trace, returnVars, saves, waitVars, shots, storeVars,
                mainVars>>

\* The call and its return value.
ResolveCall ==
    /\ ~find_out.called
    /\ find_out' = [called |-> TRUE] @@
                   FindElementBySelectors(find_in.page, find_in.timeout, find_in.visible)
    /\ UNCHANGED find_in
    /\ ResolveFrame

\* The caller goes on to another lookup.
ResolveAgain ==
    /\ find_out.called
    /\ find_in' \in ResolveInputs
    /\ find_out' = NotCalled
    /\ ResolveFrame

NextResolve == ResolveCall \/ ResolveAgain

SpecResolve == InitResolve /\ [][NextResolve]_vars

\* ------------------------------------------ wait_for_login called on its own
\* wait_for_login(timeout) on an uploader whose browser is up, as a caller of
\* the public method would.
InitWait ==
    /\ driver = 1
    /\ wait = 1
    /\ launched = 1
    /\ live = {1}
    /\ quitCalls = [i \in Instances |-> 0]
    /\ url \in URLs
    /\ jar = <<>>
    /\ cookieFile \in FlowFiles
    /\ file0 = cookieFile
    /\ flowsStarted = 1
    /\ flow = "none"
    /\ args = NoArgs
    /\ pc = "wait_for_login"
    /\ cookies_loaded = FALSE
    /\ exc = NoExc
    /\ result = NoResult
    /\ built = 0
    /\ trace = <<>>
    /\ acquired = 1
    /\ saves = 0
    /\ elapsed = 0
    /\ timeout \in 0..MaxTimeout
    /\ shots = <<>>
    /\ InitNoFind
    /\ InitNoStore
    /\ InitNoMain

NextWait == WaitForLoginEnter \/ WaitPoll \/ WaitTimeout

\* The loop runs on the calling thread: nothing else is scheduled, so a pass
\* that can be taken is taken.
SpecWait == InitWait /\ [][NextWait]_vars /\ WF_vars(NextWait)

\* ------------------------------------ the session store called on its own
\* Stored entries: with and without name and value, with the expiry under
\* either key or both, as a JSON integer or a JSON float.
CkPlain == [name |-> "c_user", value |-> "100"]
CkExpires == [name |-> "sb", value |-> "v", expires |-> JInt(70),
              httpOnly |-> FALSE]
CkValueless == [name |-> "datr"]
CkBoth == [name |-> "wd", value |-> "w", expiry |-> JInt(30), expires |-> JInt(99)]
\* An entry whose expiry is not a number: a date as an export tool writes it.
CkBadExpiry == [name |-> "presence", value |-> "p", expiry |-> JStr(FALSE, 0)]

StoreEntries == {CkXs, CkPlain, CkExpires, CkNameless, CkValueless, CkBoth}
StoreLists == SeqsUpTo(StoreEntries, MaxCookies)

\* A file whose JSON is neither a dict nor a list: a nonzero number.
ScalarFile == [kind |-> "scalar"]

\* The cookie files the store can find before its first call.
StoreFiles ==
    {NoFile, CorruptFile, ScalarFile, ListFile(<<>>), DictFile(0, <<>>),
     ListFile(<<CkBoth, CkPlain>>), DictFile(0, <<CkBadExpiry, CkPlain>>)}

\* One line of _log: the level and the message, with the numbers it prints.
Log(level, msg) == [level |-> level, msg |-> msg]

\* The warning of load_cookies for a missing file (line 214).
NotFoundLog == Log("WARNING", "Facebook cookies file not found")

\* The warning for a file without cookies, worded like the one for no file.
EmptyLog_AsNotFound == Log("WARNING", "Facebook cookies file not found")

\* The warning of load_cookies for a file without cookies (line 227).
EmptyLog == Log("WARNING", "Cookies file is empty")

\* Where a driver.get that raises ends up: nowhere.
NoPage == <<>>

\* load_cookies (lines 211-268) on the browser _setup_driver just started:
\* landed is where driver.get(home_url) ends up (NoPage when it raises),
\* rejected the entries add_cookie refuses.
LoadResult(file, landed, rejected) ==
    LET quiet == [op |-> "load", ret |-> FALSE, navigated |-> FALSE,
                  offered |-> <<>>, accepted |-> <<>>, added |-> 0,
                  raised |-> FALSE]
    IN  CASE file.kind = "absent" ->
                quiet @@ [log |-> NotFoundLog]
          [] file.kind = "corrupt" ->
                quiet @@ [log |-> Log("ERROR", "Failed to load cookies")]
          [] file.kind = "scalar" ->
                \* `for cookie in cookies` raises after the navigation
                [quiet EXCEPT !.navigated = (landed # NoPage)] @@
                [log |-> Log("ERROR", "Failed to load cookies")]
          [] OTHER ->
                IF FileCookies(file) = <<>>
                THEN quiet @@ [log |-> EmptyLog]
                ELSE IF landed = NoPage
                THEN quiet @@ [log |-> Log("ERROR", "Failed to load cookies")]
                ELSE LET r == InjectCookies(FileCookies(file), rejected) IN
                     [op |-> "load", ret |-> r.added > 0, navigated |-> TRUE,
                      offered |-> r.offered, accepted |-> r.accepted,
                      added |-> r.added, raised |-> FALSE,
                      log |-> Log("SUCCESS", "Cookies loaded") @@
                              [added |-> r.added, total |-> Len(FileCookies(file))]]

\* cookie['expiry'] > current_time (lines 638, 643): a number compares, a
\* string raises TypeError. The clock reads whole seconds here.
Later(x, now) ==
    CASE x.ty = "int" -> [ok |-> TRUE, later |-> x.whole > now]
      [] x.ty = "float" ->
            [ok |-> TRUE, later |-> x.whole > now \/ (x.whole = now /\ x.tenths > 0)]
      [] OTHER -> [ok |-> FALSE, later |-> FALSE]

\* The classification with the bug of looking at expires first.
Classify_ExpiresFirst(c, now) ==
    LET cmp == IF Has(c, "expires") THEN Later(c.expires, now)
               ELSE IF Has(c, "expiry") THEN Later(c.expiry, now)
               ELSE [ok |-> TRUE, later |-> TRUE]
    IN IF ~cmp.ok THEN "error" ELSE IF cmp.later THEN "valid" ELSE "expired"

\* The branch of the classification loop an entry takes (lines 637-648).
Classify(c, now) ==
    LET cmp == IF Has(c, "expiry") THEN Later(c.expiry, now)
               ELSE IF Has(c, "expires") THEN Later(c.expires, now)
               ELSE [ok |-> TRUE, later |-> TRUE]
    IN IF ~cmp.ok THEN "error" ELSE IF cmp.later THEN "valid" ELSE "expired"

\* check_cookies_status with the bug of letting the parse error out.
StatusResult_Throws(file, now) ==
    IF file.kind = "absent" THEN [op |-> "status", exists |-> FALSE, count |-> 0]
    ELSE [op |-> "status", raised |-> TRUE]

\* check_cookies_status (lines 614-671) at clock reading now.
StatusResult(file, now) ==
    CASE file.kind = "absent" -> [op |-> "status", exists |-> FALSE, count |-> 0]
      [] file.kind = "corrupt" ->
            [op |-> "status", exists |-> TRUE, error |-> "JSONDecodeError"]
      [] OTHER ->
            LET cookies == IF file.kind = "scalar" THEN <<>> ELSE FileCookies(file)
                stamp == IF file.kind = "dict" THEN file.timestamp ELSE 0
                kinds == [i \in 1..Len(cookies) |-> Classify(cookies[i], now)]
                Of(k) == Cardinality({i \in 1..Len(cookies) : kinds[i] = k})
            IN IF Of("error") > 0
               THEN [op |-> "status", exists |-> TRUE, error |-> "TypeError"]
               ELSE [op |-> "status", exists |-> TRUE, total |-> Len(cookies),
                     valid |-> Of("valid"), expired |-> Of("expired"),
                     timestamp |-> stamp]

\* clear_cookies with the bug of reporting success without unlinking.
ClearOutcomes_Keeps(file) ==
    IF file.kind = "absent"
    THEN {[file |-> NoFile, log |-> Log("WARNING", "No Facebook cookies to clear")]}
    ELSE {[file |-> file, log |-> Log("SUCCESS", "Facebook cookies cleared")]}

\* clear_cookies (lines 288-297): what it leaves and what it logs. An unlink
\* that raises is logged and leaves the file.
ClearOutcomes(file) ==
    IF file.kind = "absent"
    THEN {[file |-> NoFile, log |-> Log("WARNING", "No Facebook cookies to clear")]}
    ELSE {[file |-> NoFile, log |-> Log("SUCCESS", "Facebook cookies cleared")],
          [file |-> file, log |-> Log("ERROR", "Failed to clear cookies")]}

\* The clock readings of check_cookies_status.
StatusTimes == {50, 70}

\* An uploader whose browser is up: either it holds some cookies and nothing
\* is stored yet, or it holds none and finds a cookie file left by an earlier
\* run or by hand.
InitStore ==
    /\ driver = 1
    /\ wait = 1
    /\ launched = 1
    /\ live = {1}
    /\ quitCalls = [i \in Instances |-> 0]
    /\ url = BlankUrl
    /\ \/ jar \in StoreLists /\ cookieFile = NoFile
       \/ jar = <<>> /\ cookieFile \in StoreFiles
    /\ file0 = cookieFile
    /\ flowsStarted = 1
    /\ flow = "none"
    /\ args = NoArgs
    /\ pc = "idle"
    /\ cookies_loaded = FALSE
    /\ exc = NoExc
    /\ result = NoResult
    /\ built = 0
    /\ trace = <<>>
    /\ acquired = 1
    /\ saves = 0
    /\ shots = <<>>
    /\ elapsed = 0
    /\ timeout = 0
    /\ InitNoFind
    /\ InitNoStore
    /\ InitNoMain

\* What a call of a store method leaves untouched.
StoreFrame ==
    UNCHANGED <<browserVars, callVars, pc, cookies_loaded, exc, trace,
                returnVars, saves, waitVars, shots, findVars, mainVars>>

\* save_cookies(): the browser's cookies go to the file.
StoreSave ==
    /\ \E saved \in SaveOutcomes(cookieFile, jar, Now) :
          /\ cookieFile' = saved.file
          /\ store_out' = [op |-> "save", event |-> saved.event]
    /\ store_in' = [op |-> "save", file |-> cookieFile, cookies |-> jar]
    /\ UNCHANGED <<url, jar>>
    /\ StoreFrame

\* driver.add_cookie (line 256) for each accepted cookie: the browser keeps
\* one cookie per name, the newest.
AddedToJar(held, accepted) ==
    LET names == {accepted[i].name : i \in 1..Len(accepted)}
        Stays(c) == ~Has(c, "name") \/ c.name \notin names
    IN  SelectSeq(held, Stays) \o accepted

\* load_cookies(): the browser holds what it held and what it accepted.
StoreLoad ==
    /\ \E landed \in Landing(HomeUrl) \cup {NoPage},
          rejected \in SUBSET (1..MaxCookies) :
          LET r == LoadResult(cookieFile, landed, rejected) IN
          /\ store_in' = [op |-> "load", file |-> cookieFile, landed |-> landed,
                          rejected |-> rejected, jar |-> jar]
          /\ store_out' = r
          /\ jar' = AddedToJar(jar, r.accepted)
          /\ url' = IF r.navigated THEN landed ELSE BlankUrl
    /\ UNCHANGED cookieFile
    /\ StoreFrame

\* check_cookies_status() with the bug of removing a file it cannot parse.
StoreStatus_Repairs ==
    /\ \E now \in StatusTimes :
          /\ store_in' = [op |-> "status", file |-> cookieFile, now |-> now]
          /\ store_out' = StatusResult(cookieFile, now)
    /\ cookieFile' = IF cookieFile.kind = "corrupt" THEN NoFile ELSE cookieFile
    /\ UNCHANGED <<url, jar>>
    /\ StoreFrame

\* check_cookies_status()
StoreStatus ==
    /\ \E now \in StatusTimes :
          /\ store_in' = [op |-> "status", file |-> cookieFile, now |-> now]
          /\ store_out' = StatusResult(cookieFile, now)
    /\ UNCHANGED <<cookieFile, url, jar>>
    /\ StoreFrame

\* clear_cookies()
StoreClear ==
    /\ \E cleared \in ClearOutcomes(cookieFile) :
          /\ cookieFile' = cleared.file
          /\ store_out' = [op |-> "clear", log |-> cleared.log]
    /\ store_in' = [op |-> "clear", file |-> cookieFile]
    /\ UNCHANGED <<url, jar>>
    /\ StoreFrame

\* check_login_required()
StoreNeedsLogin ==
    /\ store_in' = [op |-> "needs_login", file |-> cookieFile]
    /\ store_out' = [op |-> "needs_login", ret |-> CheckLoginRequired(url)]
    /\ UNCHANGED <<cookieFile, url, jar>>
    /\ StoreFrame

\* _find_element_by_selectors(selectors) on a one-locator list
StoreResolve ==
    /\ \E page \in SeqsUpTo(ElemStates, 1) :
          /\ store_in' = [op |-> "resolve", file |-> cookieFile, page |-> page]
          /\ store_out' = [op |-> "resolve"] @@
                          FindElementBySelectors(page, DefaultFindTimeout, TRUE)
    /\ UNCHANGED <<cookieFile, url, jar>>
    /\ StoreFrame

NextStore ==
    \/ StoreSave
    \/ StoreLoad
    \/ StoreStatus
    \/ StoreClear
    \/ StoreNeedsLogin
    \/ StoreResolve

SpecStore == InitStore /\ [][NextStore]_vars

\* ------------------------------------------------------- main() (CLI)
\* An argparse value: None when the option was not given.
NotGiven == [given |-> FALSE]
Given(v) == [given |-> TRUE, val |-> v]
\* Truthiness of an optional text and of an optional path: given and not "".
HasText(o) == o.given /\ Len(o.val) > 0
HasPath(o) == o.given /\ o.val # ""
\* args.status or "", args.media or ""
TextOr(o) == IF HasText(o) THEN o.val ELSE <<>>
PathOr(o) == IF HasPath(o) THEN o.val ELSE ""

\* The command lines: the two cookie switches, --type status with and
\* without --status and --media, --type reels with and without --video, and
\* no option at all (interactive mode).
Argvs ==
    [type : {"status"}, switch : {"none"},
     status : {NotGiven, Given(<<>>), Given(<<"h", "i">>)},
     media : {NotGiven, Given("missing.png"), Given("photo.png")},
     video : {NotGiven}]
    \cup
    [type : {"reels"}, switch : {"none"}, status : {NotGiven}, media : {NotGiven},
     video : {NotGiven, Given("missing.mp4"), Given("clip.mp4")}]
    \cup
    [type : {"none"}, switch : {"none", "clear_cookies", "check_cookies"},
     status : {NotGiven}, media : {NotGiven}, video : {NotGiven}]

\* The process is running: no exit code yet.
Running == -1

\* What main leaves alone when it calls no flow.
MainFrame ==
    UNCHANGED <<browserVars, url, jar, callVars, pc, cookies_loaded, exc, trace,
                returnVars, saves, waitVars, shots, findVars, storeVars>>

\* sys.exit(code), or main returning (code 0)
Exit(code) == main_pc' = "exited" /\ exit_code' = code

\* result = uploader.upload_status(...) / uploader.upload_reels(...)
\* (lines 709, 726, 755, 769, 783): the flow starts on main's thread.
Invoke(f, a) ==
    /\ flowsStarted < MaxFlows
    /\ flow' = f
    /\ args' = a
    /\ flowsStarted' = flowsStarted + 1
    /\ file0' = cookieFile
    /\ pc' = "setup"
    /\ cookies_loaded' = FALSE
    /\ exc' = NoExc
    /\ result' = NoResult
    /\ built' = 0
    /\ trace' = <<>>
    /\ acquired' = NoDriver
    /\ saves' = 0
    /\ shots' = <<>>
    /\ main_pc' = "in_flow"
    /\ UNCHANGED <<driver, wait, launched, live, quitCalls, url, jar, cookieFile,
                   waitVars, findVars, storeVars, exit_code>>

\* python facebook_uploader.py <options>: the options are parsed and the
\* uploader is constructed; no browser yet.
InitMain ==
    /\ InitUploader
    /\ InitIdle
    /\ cookieFile \in {NoFile, DictFile(0, <<CkNameless, CkXs>>)}
    /\ InitNoFind
    /\ InitNoStore
    /\ argv \in Argvs
    /\ main_pc = "start"
    /\ exit_code = Running
    /\ menu = NoMain

\* if args.clear_cookies: (lines 690-692)
MainClearCookies ==
    /\ main_pc = "start"
    /\ argv.switch = "clear_cookies"
    /\ \E cleared \in ClearOutcomes(cookieFile) : cookieFile' = cleared.file
    /\ Exit(0)
    /\ UNCHANGED <<argv, menu>>
    /\ MainFrame

\* if args.check_cookies: (lines 694-696)
MainCheckCookies ==
    /\ main_pc = "start"
    /\ argv.switch = "check_cookies"
    /\ Exit(0)
    /\ UNCHANGED <<argv, menu, cookieFile>>
    /\ MainFrame

\* --type status with the bug of calling the flow without looking at the
\* options.
MainStatus_Unchecked ==
    /\ main_pc = "start"
    /\ argv.switch = "none"
    /\ argv.type = "status"
    /\ Invoke("status", [status_text |-> TextOr(argv.status),
                         media_path |-> PathOr(argv.media)])
    /\ UNCHANGED <<argv, menu>>

\* if args.type == 'status': (lines 698-709)
MainStatus ==
    /\ main_pc = "start"
    /\ argv.switch = "none"
    /\ argv.type = "status"
    /\ IF \/ ~HasText(argv.status) /\ ~HasPath(argv.media)
          \/ HasPath(argv.media) /\ ~PathExists(argv.media.val)
       THEN /\ Exit(1)
            /\ UNCHANGED cookieFile
            /\ MainFrame
       ELSE Invoke("status", [status_text |-> TextOr(argv.status),
                              media_path |-> PathOr(argv.media)])
    /\ UNCHANGED <<argv, menu>>

\* elif args.type == 'reels': (lines 717-726)
MainReels ==
    /\ main_pc = "start"
    /\ argv.switch = "none"
    /\ argv.type = "reels"
    /\ IF ~HasPath(argv.video) \/ ~PathExists(argv.video.val)
       THEN /\ Exit(1)
            /\ UNCHANGED cookieFile
            /\ MainFrame
       ELSE Invoke("reels", [video_path |-> argv.video.val, description |-> <<>>])
    /\ UNCHANGED <<argv, menu>>

\* else: interactive mode (lines 734-737)
MainInteractive ==
    /\ main_pc = "start"
    /\ argv.switch = "none"
    /\ argv.type = "none"
    /\ main_pc' = "menu"
    /\ UNCHANGED <<argv, menu, exit_code, cookieFile>>
    /\ MainFrame

\* The menu is shown again: what was chosen and what came of it.
Shown(choice, outcome) ==
    /\ menu' = [choice |-> choice, outcome |-> outcome]
    /\ main_pc' = "menu"
    /\ UNCHANGED <<exit_code, cookieFile>>
    /\ MainFrame

\* A flow is called from the menu.
Chosen(choice, f, a) ==
    /\ menu' = [choice |-> choice, outcome |-> "called"]
    /\ Invoke(f, a)

\* choice "1" (lines 750-760)
MenuStatusText ==
    /\ main_pc = "menu"
    /\ \E typed \in Texts :
          IF Strip(typed) = <<>>
          THEN Shown("1", "rejected")
          ELSE Chosen("1", "status", [status_text |-> Strip(typed), media_path |-> ""])
    /\ UNCHANGED argv

\* choice "2" (lines 762-774)
MenuStatusMedia ==
    /\ main_pc = "menu"
    /\ \E path \in MediaPaths, typed \in Texts :
          IF ~PathExists(path)
          THEN Shown("2", "rejected")
          ELSE Chosen("2", "status", [status_text |-> Strip(typed), media_path |-> path])
    /\ UNCHANGED argv

\* choice "3" (lines 776-788)
MenuReels ==
    /\ main_pc = "menu"
    /\ \E path \in VideoPaths :
          IF ~PathExists(path)
          THEN Shown("3", "rejected")
          ELSE Chosen("3", "reels", [video_path |-> path, description |-> <<>>])
    /\ UNCHANGED argv

\* choice "4" (lines 790-791)
MenuCheckCookies ==
    /\ main_pc = "menu"
    /\ Shown("4", "done")
    /\ UNCHANGED argv

\* choice "5" (lines 793-796): the file goes only after a "y".
MenuClearCookies ==
    /\ main_pc = "menu"
    /\ \E confirm \in {"y", "n"} :
          /\ menu' = [choice |-> "5", outcome |-> IF confirm = "y" THEN "done"
                                                  ELSE "rejected"]
          /\ IF confirm = "y"
             THEN \E cleared \in ClearOutcomes(cookieFile) : cookieFile' = cleared.file
             ELSE cookieFile' = cookieFile
    /\ UNCHANGED <<argv, main_pc, exit_code>>
    /\ MainFrame

\* choice "6" (lines 798-800): break, main returns.
MenuExit ==
    /\ main_pc = "menu"
    /\ menu' = [choice |-> "6", outcome |-> "exit"]
    /\ Exit(0)
    /\ UNCHANGED <<argv, cookieFile>>
    /\ MainFrame

\* any other choice (lines 802-803)
MenuInvalid ==
    /\ main_pc = "menu"
    /\ \E choice \in {"", "7"} : Shown(choice, "invalid")
    /\ UNCHANGED argv

\* The flow returned its result to main (lines 711-715, 728-732, 757-760,
\* 771-774, 785-788): the command line exits with 1 on a failure, the menu
\* prints and goes round.
MainFlowReturned ==
    /\ main_pc = "in_flow"
    /\ pc = "returned"
    /\ IF argv.type = "none"
       THEN /\ main_pc' = "menu"
            /\ menu' = [menu EXCEPT !.outcome = IF result.success THEN "uploaded"
                                                 ELSE "failed"]
            /\ UNCHANGED exit_code
       ELSE /\ Exit(IF result.success THEN 0 ELSE 1)
            /\ UNCHANGED menu
    /\ UNCHANGED <<argv, cookieFile>>
    /\ MainFrame

\* The flow raised: nothing in main catches it, the handler around main()
\* prints "Fatal error" and the script ends (lines 809-815).
MainFlowRaised ==
    /\ main_pc = "in_flow"
    /\ pc = "raised"
    /\ Exit(0)
    /\ menu' = IF argv.type = "none" THEN [menu EXCEPT !.outcome = "fatal"] ELSE menu
    /\ UNCHANGED <<argv, cookieFile>>
    /\ MainFrame

NextMain ==
    \/ MainClearCookies
    \/ MainCheckCookies
    \/ MainStatus
    \/ MainReels
    \/ MainInteractive
    \/ MenuStatusText
    \/ MenuStatusMedia
    \/ MenuReels
    \/ MenuCheckCookies
    \/ MenuClearCookies
    \/ MenuExit
    \/ MenuInvalid
    \/ MainFlowReturned
    \/ MainFlowRaised
    \/ SetupDriver
    \/ LoadCookies
    \/ Navigate
    \/ CheckLogin
    \/ Refresh
    \/ CheckLoginAgain
    \/ WaitForLoginEnter
    \/ WaitPoll
    \/ WaitTimeout
    \/ NavigateAfterLogin
    \/ FindStatusInput
    \/ FindPhotoButton
    \/ FindFileInput
    \/ AddText
    \/ FindUpload
    \/ UploadFallback
    \/ FeedVideo
    \/ NextButton
    \/ FindSubmit
    \/ SubmitFallback
    \/ Submit
    \/ Except
    \/ Finally

SpecMain == InitMain /\ [][NextMain]_vars

\* ------------------------------------- the element scans on their own
\* A page met by the submit step of a flow, or by its text step.
ScanInputs ==
    [op : {"submit"}, flow : {"status"}, page : PagesFor("post_button"),
     divs : SeqsUpTo(Buttons, MaxElems)]
    \cup
    [op : {"submit"}, flow : {"reels"}, page : PagesFor("reels_share_button"),
     divs : SeqsUpTo(Buttons, MaxElems)]
    \cup
    [op : {"type"}, text : Texts, inputs : SeqsUpTo(TextInputs, MaxElems)]

InitScan ==
    /\ InitUploader
    /\ InitIdle
    /\ cookieFile = NoFile
    /\ find_in \in ScanInputs
    /\ find_out = [op |-> "none"]
    /\ InitNoStore
    /\ InitNoMain

\* Lines 411-428 and 548-566 on a page: the locator list, the scan of the
\* divs when it resolves nothing, then the forced click or the exception.
ScanSubmit ==
    /\ find_in.op = "submit"
    /\ find_out.op = "none"
    /\ LET r == FindElementBySelectors(
                    find_in.page,
                    IF find_in.flow = "status" THEN DefaultFindTimeout ELSE 15, TRUE)
           scanned == r.element = None
           chosen == IF scanned THEN ScanButtons(find_in.flow, find_in.divs) ELSE 0
       IN  find_out' = [op |-> "submit", located |-> r.index,
                        scanned |-> scanned, chosen |-> chosen,
                        clicked |-> ~scanned \/ chosen # 0,
                        raised |-> scanned /\ chosen = 0]
    /\ UNCHANGED find_in
    /\ ResolveFrame

\* Lines 394-409 and 524-539 on a page: the text step of either flow.
ScanText ==
    /\ find_in.op = "type"
    /\ find_out.op = "none"
    /\ LET looked == Strip(find_in.text) # <<>>
           typed == IF looked THEN TypedInto(find_in.inputs) ELSE 0
       IN  find_out' = [op |-> "type", looked |-> looked, typed |-> typed,
                        sent |-> IF typed # 0 THEN find_in.text ELSE <<>>,
                        raised |-> FALSE]
    /\ UNCHANGED find_in
    /\ ResolveFrame

SpecScan == InitScan /\ [][ScanSubmit \/ ScanText]_vars

\* ------------------------------------------------------------------ claims
Occurs(ev) == \E i \in 1..Len(trace) : trace[i] = ev
Count(ev) == Cardinality({i \in 1..Len(trace) : trace[i] = ev})
LastEvent == IF trace = <<>> THEN "none" ELSE trace[Len(trace)]
FlowOver == pc \in {"returned", "raised"}

\* C1: whenever a flow invocation that launched a browser instance is over
\* (it returned, or an exception left it), quit() has been called on that
\* instance, as the last thing the invocation did.
C1_QuitBeforeReturn ==
    (FlowOver /\ acquired # NoDriver) =>
        /\ quitCalls[acquired] >= 1
        /\ LastEvent = "quit"

\* A flow that launched a browser, timed out waiting for the login and
\* returned.
C1_Witness ==
    /\ pc = "returned"
    /\ acquired # NoDriver
    /\ Occurs("login_timeout")
    /\ quitCalls[acquired] = 1

\* C2, as claimed: no exception ever leaves a flow, teardown included, and a
\* flow that met an exception returns a failure whose message holds the
\* exception's message.
C2_NeverRaises ==
    /\ pc # "raised"
    /\ (pc = "returned" /\ exc # NoExc) =>
          /\ result.success = FALSE
          /\ Contains(result.message, exc.msg)

\* The events of an invocation that never touched the site: no navigation,
\* no cookie injection, no element lookup, no URL read.
OffSiteEvents == {"launch_failed", "screenshot_failed", "return", "quit"}

Matching == {i \in 1..Len(find_in.page) :
                SelectorMatches(find_in.page[i], find_in.visible)}
Lowest(S) == CHOOSE i \in S : \A j \in S : i <= j
UpTo(n) == [i \in 1..n |-> i]

\* C4: when some locator matches, the resolver returns the match of the
\* lowest-index one, having tried exactly the locators up to it, in order:
\* none after it, whether or not it would match too.
C4_FirstMatchWins ==
    (find_out.called /\ Matching # {}) =>
        /\ find_out.index = Lowest(Matching)
        /\ find_out.element = find_in.page[Lowest(Matching)]
        /\ find_out.tried = UpTo(Lowest(Matching))

\* A list whose first locator fails and whose second and third both match.
C4_Witness ==
    /\ find_out.called
    /\ Cardinality(Matching) >= 2
    /\ 1 \notin Matching
    /\ find_out.index = 2

\* C5: when no locator matches, the resolver returns None after trying each
\* locator once, in order, and has waited the sum of their timeouts; on an
\* empty list it returns None without waiting.
C5_NotFoundAfterAllTimeouts ==
    (find_out.called /\ Matching = {}) =>
        /\ find_out.element = None
        /\ find_out.tried = UpTo(Len(find_in.page))
        /\ find_out.waited = Len(find_in.page) * find_in.timeout

\* A list of several locators, none matching, each waited out.
C5_Witness ==
    /\ find_out.called
    /\ Matching = {}
    /\ Len(find_in.page) >= 2
    /\ find_in.timeout > 0
    /\ find_out.waited = Len(find_in.page) * find_in.timeout

\* C6: wait_for_login returns only on a URL without "login" and "checkpoint"
\* and with the site's domain, having called save_cookies exactly once, as its
\* last act; while it waits, and when it gives up with the timeout, no save
\* was called and the cookie file is untouched.
C6_LoginWaitOutcome ==
    /\ pc = "call_returned" =>
          /\ ~Contains(url, "login")
          /\ ~Contains(url, "checkpoint")
          /\ Contains(url, "facebook.com")
          /\ saves = 1
          /\ LastEvent \in {"save", "save_failed"}
          /\ exc = NoExc
    /\ (pc = "call_raised" /\ exc = LoginTimeoutError) =>
          saves = 0 /\ cookieFile = file0
    /\ pc \in {"wait_for_login", "wait_loop"} =>
          saves = 0 /\ cookieFile = file0

\* The wait returned after at least one sleep and the save replaced the file.
C6_Witness ==
    /\ pc = "call_returned"
    /\ saves = 1
    /\ cookieFile # file0
    /\ url = ReelsUrl

\* C7: wait_for_login ends, by returning or by raising, whatever the timeout
\* and the URLs it reads; once the elapsed time has reached the timeout the
\* only thing it does is raise the timeout, without another read or save.
C7_WaitTerminates ==
    /\ <>(pc \in {"call_returned", "call_raised"})
    /\ [][(pc = "wait_loop" /\ elapsed >= timeout) =>
             /\ pc' = "call_raised"
             /\ exc' = LoginTimeoutError
             /\ url' = url
             /\ saves' = saves]_vars

\* The loop has slept its way to the timeout.
C7_Witness ==
    /\ pc = "wait_loop"
    /\ timeout > 0
    /\ elapsed >= timeout

\* C8: with no cookie file when the flow starts, nothing is injected and
\* nothing refreshed; the flow waits for the interactive login whenever the
\* page asks for it; and when the URL leaves the login page in time,
\* save_cookies is called once and the file it writes holds the cookies the
\* browser holds at that moment, stamped with the time of the save.
C8_NoFileLoginSaves ==
    (flow # "none" /\ file0 = NoFile) =>
        /\ ~Occurs("inject") /\ ~Occurs("refresh") /\ ~cookies_loaded
        /\ pc # "refresh"
        /\ pc = "check_login_again" =>
              (LastEvent = "needs_login" /\ CheckLoginRequired(url))
        /\ pc = "navigate_after_login" =>
              /\ saves = 1
              /\ LoginCompleted(url)
              /\ jar # <<>>
              /\ LastEvent = "save" =>
                    /\ cookieFile.kind = "dict"
                    /\ cookieFile.cookies = jar
                    /\ cookieFile.timestamp = Now
              /\ LastEvent = "save_failed" => cookieFile \in {NoFile, CorruptFile}
        /\ ~Occurs("login_ok") => (saves = 0 /\ cookieFile = NoFile)

\* A flow started without a cookie file has come out of the login wait with
\* the session cookie saved.
C8_Witness ==
    /\ flow # "none" /\ file0 = NoFile
    /\ pc = "navigate_after_login"
    /\ Occurs("await_login")
    /\ LastEvent = "save"
    /\ cookieFile = DictFile(Now, <<CkSession>>)

\* The step of the flow an event belongs to.
LaunchEvents == {"launch", "launch_failed"}
RestoreEvents == {"restore", "restore_nav", "restore_nav_failed", "inject"}
NavigateEvents == {"navigate", "navigate_failed"}
LoginEvents == {"needs_login", "no_login_needed", "check_login_failed",
                "refresh", "refresh_failed", "await_login", "poll_failed",
                "login_ok", "save", "save_failed", "login_timeout",
                "navigate_again", "navigate_again_failed"}
SubmitEvents == {"submit_click", "submit_failed"}
ExitEvents == {"screenshot", "screenshot_failed", "return", "quit"}
Rank(ev) ==
    CASE ev \in LaunchEvents -> 1
      [] ev \in RestoreEvents -> 2
      [] ev \in NavigateEvents -> 3
      [] ev \in LoginEvents -> 4
      [] ev \in SubmitEvents -> 6
      [] ev \in ExitEvents -> 7
      [] OTHER -> 5
ContentReached == \E i \in 1..Len(trace) : Rank(trace[i]) \in {5, 6}

\* The positions of the trace that hold the second login check of the flow,
\* the one after the optional refresh.
SecondChecks ==
    {i \in 2..Len(trace) :
        /\ trace[i] \in {"needs_login", "no_login_needed"}
        /\ trace[i - 1] \in {"needs_login", "refresh"}}

\* C9: the steps of a flow happen in the order launch, restore, navigate,
\* login check, content, submit; the page is refreshed at most once, and only
\* straight after a login check that said login is needed, in a flow whose
\* restore injected a cookie the browser accepted; wait_for_login is entered
\* exactly when the check after the optional refresh still says login is
\* needed, so never in a flow whose check said no login is needed; and no
\* content step follows a login timeout.
C9_StepOrder ==
    flow # "none" =>
        /\ \A i, j \in 1..Len(trace) : i < j => Rank(trace[i]) <= Rank(trace[j])
        /\ Occurs("submit_click") =>
              /\ trace[1] = "launch"
              /\ Count("restore") = 1
              /\ Count("navigate") = 1
              /\ Occurs("needs_login") \/ Occurs("no_login_needed")
              /\ \E i \in 1..Len(trace) : Rank(trace[i]) = 5
        /\ Count("refresh") + Count("refresh_failed") <= 1
        /\ \A i \in 1..Len(trace) :
              trace[i] \in {"refresh", "refresh_failed"} =>
                  /\ i > 2
                  /\ trace[i - 1] = "needs_login"
                  /\ trace[i - 2] = "navigate"
                  /\ cookies_loaded
                  /\ Occurs("inject")
        /\ (pc = "refresh" \/ (Occurs("refresh") /\ ~Occurs("quit"))) => jar # <<>>
        /\ \A i \in 1..Len(trace) :
              trace[i] = "await_login" =>
                  (i - 1 \in SecondChecks /\ trace[i - 1] = "needs_login")
        /\ \A i \in SecondChecks :
              trace[i] = "needs_login" =>
                  IF i = Len(trace) THEN pc = "wait_for_login"
                  ELSE trace[i + 1] = "await_login"
        /\ Count("await_login") <= 1
        /\ Occurs("no_login_needed") => ~Occurs("await_login")
        /\ Occurs("login_timeout") => ~ContentReached

\* A flow that injected cookies, refreshed, waited for the login and went on
\* to submit.
C9_Witness ==
    /\ pc = "returned"
    /\ Occurs("inject")
    /\ Occurs("refresh")
    /\ Occurs("await_login")
    /\ Occurs("submit_click")

\* The fields of the result of each flow.
StatusKeys == {"success", "message", "status_text", "media_path"}
ReelsKeys == {"success", "message", "video_path", "description"}

\* C10: a flow that returns has executed exactly one return statement, and
\* the result it returned holds success, a message and both parameters of the
\* call exactly as they were passed, on success and on failure alike.
C10_ResultFilled ==
    pc = "returned" =>
        /\ built = 1
        /\ Count("return") = 1
        /\ result # NoResult
        /\ result.success \in BOOLEAN
        /\ result.message # <<>>
        /\ flow = "status" =>
              /\ DOMAIN result = StatusKeys
              /\ result.status_text = args.status_text
              /\ result.media_path = args.media_path
        /\ flow = "reels" =>
              /\ DOMAIN result = ReelsKeys
              /\ result.video_path = args.video_path
              /\ result.description = args.description

\* A reel flow that failed and returned the description it was given.
C10_Witness ==
    /\ pc = "returned"
    /\ flow = "reels"
    /\ result.success = FALSE
    /\ args.description # <<>>
    /\ result.description = args.description

\* An entry load keeps: it has both name and value.
Named(c) == Has(c, "name") /\ Has(c, "value")
Kept(list) == SelectSeq(list, Named)
\* The expiry an entry supplies: under expiry, or else under expires.
SuppliesExpiry(c) == Has(c, "expiry") \/ Has(c, "expires")
Supplied(c) == IF Has(c, "expiry") THEN c.expiry ELSE c.expires
\* Every expiry the list supplies is epoch seconds: a number.
NumericExpiries(list) ==
    \A i \in 1..Len(list) :
        SuppliesExpiry(list[i]) => Supplied(list[i]).ty \in {"int", "float"}
\* The last store call was a load of a file that parses and holds cookies,
\* and the page load_cookies opens first did open.
LoadedStored ==
    /\ store_out.op = "load"
    /\ store_in.file.kind \in {"dict", "list"}
    /\ store_in.file.cookies # <<>>
    /\ store_in.landed # NoPage

\* C11: a load of the file a save wrote, from a list with at least one entry
\* that has name and value, hands the browser exactly the entries that have
\* name and value, in the order saved, each with its name and value, and with
\* an integer expiry (the supplied expiry or expires, truncated) exactly when
\* one was supplied; the entries lacking name or value are dropped.
C11_SaveLoadRoundTrip ==
    (LoadedStored /\ store_in.file.kind = "dict" /\ store_in.file.timestamp = Now
        /\ Kept(store_in.file.cookies) # <<>>
        /\ NumericExpiries(store_in.file.cookies)) =>
        LET kept == Kept(store_in.file.cookies)
            got == store_out.offered
        IN  /\ Len(got) = Len(kept)
            /\ \A k \in 1..Len(kept) :
                  /\ got[k].name = kept[k].name
                  /\ got[k].value = kept[k].value
                  /\ Has(got[k], "expiry") <=> SuppliesExpiry(kept[k])
                  /\ ~Has(got[k], "expires")
                  /\ Has(got[k], "expiry") =>
                        /\ got[k].expiry.ty = "int"
                        /\ got[k].expiry.whole = Supplied(kept[k]).whole

\* A saved list of an entry without value and one with a fractional expiry
\* came back as the one entry, its expiry an integer.
C11_Witness ==
    /\ LoadedStored
    /\ store_in.file = DictFile(Now, <<CkValueless, CkXs>>)
    /\ Len(store_out.offered) = 1
    /\ store_out.offered[1].expiry = JInt(50)

\* C12: load on a missing file fails with the not-found warning and load on a
\* file whose list, or whose cookies list, is empty fails with the empty
\* warning; each warning is given in its own case only, and in both cases the
\* browser is not navigated and no cookie is offered to it or held by it.
C12_NotFoundAndEmpty ==
    store_out.op = "load" =>
        LET missing == store_in.file.kind = "absent"
            empty == /\ store_in.file.kind \in {"dict", "list"}
                     /\ store_in.file.cookies = <<>>
        IN  /\ missing <=> store_out.log = NotFoundLog
            /\ empty <=> store_out.log = EmptyLog
            /\ (missing \/ empty) =>
                  /\ store_out.ret = FALSE
                  /\ ~store_out.navigated
                  /\ store_out.offered = <<>>
                  /\ store_out.accepted = <<>>
                  /\ jar = store_in.jar

\* A file holding {"timestamp": 0, "cookies": []} was loaded.
C12_Witness ==
    /\ store_out.op = "load"
    /\ store_in.file = DictFile(0, <<>>)
    /\ store_out.log = EmptyLog
    /\ store_out.ret = FALSE

\* A missing file was loaded.
C12_MissingWitness ==
    /\ store_out.op = "load"
    /\ store_in.file = NoFile
    /\ store_out.log = NotFoundLog

\* C13: whatever entries the browser refuses, every stored entry with name and
\* value is handed to it, in stored order; the count load reports is the
\* number the browser took; load returns whether that count is positive and
\* raises nothing, a zero count included.
C13_RejectionsDoNotAbort ==
    (LoadedStored /\ NumericExpiries(store_in.file.cookies)) =>
        LET stored == store_in.file.cookies
            named == {i \in 1..Len(stored) : Named(stored[i])}
        IN  /\ Len(store_out.offered) = Cardinality(named)
            /\ \A k \in 1..Len(store_out.offered) :
                  store_out.offered[k].name = Kept(stored)[k].name
            /\ store_out.added = Cardinality(named \ store_in.rejected)
            /\ Len(store_out.accepted) = store_out.added
            /\ jar = AddedToJar(store_in.jar, store_out.accepted)
            /\ store_out.log.added = store_out.added
            /\ store_out.ret = (store_out.added > 0)
            /\ store_out.raised = FALSE

\* The browser refused the first of two stored cookies and took the second.
C13_Witness ==
    /\ LoadedStored
    /\ Len(Kept(store_in.file.cookies)) = 2
    /\ store_in.rejected = {1}
    /\ Len(store_out.offered) = 2
    /\ store_out.added = 1

\* The browser refused every stored cookie: load returned False.
C13_ZeroWitness ==
    /\ LoadedStored
    /\ Len(store_out.offered) = 2
    /\ store_out.added = 0
    /\ store_out.ret = FALSE
    /\ store_out.raised = FALSE

\* Whether an entry's expiry, if it has one, lies after the clock reading.
NotExpired(c, now) ==
    \/ ~SuppliesExpiry(c)
    \/ Supplied(c).whole > now
    \/ Supplied(c).ty = "float" /\ Supplied(c).whole = now /\ Supplied(c).tenths > 0

\* C14: status counts every stored entry once, as valid when it has neither
\* expiry nor expires or its expiry lies after the clock reading, as expired
\* otherwise: valid + expired = total.
C14_StatusClassification ==
    (store_out.op = "status" /\ store_in.file.kind \in {"dict", "list"}
        /\ NumericExpiries(store_in.file.cookies)) =>
        LET stored == store_in.file.cookies
            fresh == {i \in 1..Len(stored) : NotExpired(stored[i], store_in.now)}
        IN  /\ store_out.exists
            /\ ~Has(store_out, "error")
            /\ store_out.total = Len(stored)
            /\ store_out.valid = Cardinality(fresh)
            /\ store_out.expired = Len(stored) - Cardinality(fresh)
            /\ store_out.valid + store_out.expired = store_out.total

\* A store of one cookie whose expiry is past: expired 1, valid 0.
C14_Witness ==
    /\ store_out.op = "status"
    /\ store_in.file.kind = "dict"
    /\ store_in.file.cookies = <<CkBoth>>
    /\ store_out.expired = 1
    /\ store_out.valid = 0

\* A store of one cookie without expiry: valid 1.
C14_NoExpiryWitness ==
    /\ store_out.op = "status"
    /\ store_in.file.kind = "dict"
    /\ store_in.file.cookies = <<CkPlain>>
    /\ store_out.valid = 1
    /\ store_out.expired = 0

\* A file that is there and is not a list, or an object with a list, of
\* entries with numeric expiries.
Malformed(file) ==
    \/ file.kind \in {"corrupt", "scalar"}
    \/ file.kind \in {"dict", "list"} /\ ~NumericExpiries(file.cookies)
\* The fields of a load's outcome that the flow goes on with.
LoadEffect(r) == <<r.ret, r.offered, r.accepted, r.added, r.raised>>

\* C15 as stated: status on a corrupt or malformed file returns a record with
\* an error field.
C15_MalformedHasErrorField ==
    (store_out.op = "status" /\ Malformed(store_in.file)) =>
        Has(store_out, "error")

\* C15: no reader raises on a corrupt or malformed file. status returns a
\* record saying the file exists, with an error field when the file does not
\* parse or an expiry does not compare, and with total 0 and no error field
\* when the JSON is neither a list nor an object. load returns False without
\* offering a cookie when the file does not parse or is not a list, leaving
\* the browser with what load leaves it with when no file is there.
C15_ReadersNeverRaise ==
    /\ (store_out.op = "status" /\ Malformed(store_in.file)) =>
          /\ Has(store_out, "exists") /\ store_out.exists
          /\ ~Has(store_out, "raised")
          /\ Has(store_out, "error") <=> store_in.file.kind # "scalar"
          /\ store_in.file.kind = "scalar" =>
                store_out.total = 0 /\ store_out.valid = 0 /\ store_out.expired = 0
    /\ (store_out.op = "load" /\ Malformed(store_in.file)) =>
          /\ store_out.raised = FALSE
          /\ store_in.file.kind \in {"corrupt", "scalar"} =>
                /\ store_out.ret = FALSE
                /\ store_out.log.level = "ERROR"
                /\ jar = store_in.jar
                /\ LoadEffect(store_out) =
                      LoadEffect(LoadResult(NoFile, store_in.landed, store_in.rejected))

\* status was asked about a file that does not parse and returned the error.
C15_Witness ==
    /\ store_out.op = "status"
    /\ store_in.file = CorruptFile
    /\ Has(store_out, "error")
    /\ store_out.exists

\* load was asked for a file that does not parse and returned False.
C15_LoadWitness ==
    /\ store_out.op = "load"
    /\ store_in.file = CorruptFile
    /\ store_out.ret = FALSE
    /\ store_out.raised = FALSE

\* The store calls that only read.
ReadOnlyOps == {"load", "status", "needs_login", "resolve"}

\* C16: a step changes the cookie file only if it is a save or a clear. A
\* save that succeeds leaves the file holding the clock reading and the
\* browser's whole cookie list, a save that fails leaves it as it was or cut
\* short, a clear that changes it leaves it absent; load, status, the login
\* check and locator resolution leave it as it was.
C16_OnlySaveAndClearWrite ==
    [][/\ cookieFile' # cookieFile => store_out'.op \in {"save", "clear"}
       /\ store_out'.op \in ReadOnlyOps => cookieFile' = cookieFile
       /\ store_out'.op = "save" =>
             IF store_out'.event = "save"
             THEN cookieFile' = DictFile(Now, jar)
             ELSE cookieFile' \in {cookieFile, CorruptFile}
       /\ store_out'.op = "clear" => cookieFile' \in {cookieFile, NoFile}]_vars

\* A save wrote the file and a later load, which took a cookie from it, left
\* it as the save wrote it.
C16_Witness ==
    /\ store_out.op = "load"
    /\ store_out.added > 0
    /\ file0 = NoFile
    /\ cookieFile = store_in.file
    /\ cookieFile.kind = "dict"
    /\ cookieFile.timestamp = Now

\* C17: a clear that reports no error leaves no cookie file, whatever was
\* there; a clear with no file there warns, reports no error and leaves no
\* file. While no file is there load reports not-found and status reports
\* exists = false, and only a save makes a file appear again.
C17_ClearLeavesAbsent ==
    /\ [](/\ store_out.op = "clear" =>
                /\ store_out.log.level # "ERROR" => cookieFile = NoFile
                /\ store_in.file = NoFile =>
                      /\ store_out.log = Log("WARNING", "No Facebook cookies to clear")
                      /\ cookieFile = NoFile
                /\ store_out.log.level = "ERROR" => cookieFile = store_in.file
          /\ (store_out.op = "load" /\ cookieFile = NoFile) =>
                store_out.log = NotFoundLog /\ store_out.ret = FALSE
          /\ (store_out.op = "status" /\ cookieFile = NoFile) =>
                store_out.exists = FALSE)
    /\ [][(cookieFile = NoFile /\ cookieFile' # NoFile) => store_out'.op = "save"]_vars

\* A file that was there has been cleared, and the load after reported
\* not-found.
C17_Witness ==
    /\ store_out.op = "load"
    /\ store_out.log = NotFoundLog
    /\ cookieFile = NoFile
    /\ file0 # NoFile

\* A clear found no file and warned.
C17_AbsentWitness ==
    /\ store_out.op = "clear"
    /\ store_in.file = NoFile
    /\ store_out.log.level = "WARNING"
    /\ cookieFile = NoFile

\* The calls of take_screenshot in the invocation, and those that wrote.
ShotCalls == Count("screenshot") + Count("screenshot_failed")
Failed == result # NoResult /\ ~result.success
Succeeded == result # NoResult /\ result.success

C19_LaunchWitness ==
    /\ Failed
    /\ Occurs("launch_failed")
    /\ Occurs("screenshot_failed")
    /\ shots = <<>>

\* The command line asks for a status upload without text and with a media
\* path that is not on disk.
EmptyStatusRequest ==
    /\ argv # NoMain
    /\ argv.type = "status"
    /\ ~HasText(argv.status)
    /\ argv.media.given
    /\ ~PathExists(argv.media.val)

\* C18: a status upload asked for on the command line with no text and a
\* media path that is not on disk ends the process with exit code 1 in
\* main's validation: no flow is called, no browser is launched, nothing is
\* navigated to and no cookie is injected.
C18_RejectedBeforeLaunch ==
    (EmptyStatusRequest /\ main_pc # "start") =>
        /\ main_pc = "exited"
        /\ exit_code = 1
        /\ flowsStarted = 0
        /\ pc = "idle"
        /\ launched = 0
        /\ driver = NoDriver
        /\ trace = <<>>
        /\ url = BlankUrl
        /\ jar = <<>>
        /\ cookieFile = file0

\* --type status --status "" --media missing.png was run and has exited.
C18_Witness ==
    /\ EmptyStatusRequest
    /\ argv.status = Given(<<>>)
    /\ argv.media = Given("missing.png")
    /\ main_pc = "exited"
    /\ exit_code = 1

\* The script runs in interactive mode.
Interactive == argv # NoMain /\ argv.type = "none" /\ argv.switch = "none"

\* C20 as stated: interactive mode ends only on the explicit exit choice.
C20_OnlyExitChoiceEnds ==
    (Interactive /\ main_pc = "exited") =>
        (Has(menu, "choice") /\ menu.choice = "6")

\* What does hold in interactive mode: a failed result, a rejected input and
\* an invalid choice each lead back to the menu, and the process ends on
\* choice 6 or on an exception raised by a flow.
C20_FailedActionsReturnToMenu ==
    /\ (Interactive /\ Has(menu, "outcome")
            /\ menu.outcome \in {"failed", "rejected", "invalid", "uploaded", "done"}) =>
          main_pc = "menu" /\ exit_code = Running
    /\ (Interactive /\ main_pc = "exited") =>
          menu.outcome \in {"exit", "fatal"}

\* A menu upload failed with a result and the menu is shown again.
C20_Witness ==
    /\ Interactive
    /\ main_pc = "menu"
    /\ Has(menu, "outcome") /\ menu.outcome = "failed"
    /\ result # NoResult /\ ~result.success

\* A menu upload whose quit() raised ended the process.
C20_FatalWitness ==
    /\ Interactive
    /\ main_pc = "exited"
    /\ Has(menu, "outcome") /\ menu.outcome = "fatal"
    /\ menu.choice = "1"
    /\ exc = QuitError

\* C21 as stated: at most one browser instance is live, none is live once a
\* flow has returned, and quit() reaches only the instance the invocation
\* acquired, so that no instance is quit twice.
C21_TeardownOnlyOwnInstance ==
    /\ Cardinality(live) <= 1
    /\ pc = "returned" => live = {}
    /\ \A i \in Instances : quitCalls[i] <= 1
    /\ (FlowOver /\ Occurs("quit")) => acquired = driver

\* What does hold across invocations: at most one instance is live, none is
\* live once a flow has returned, and an instance is live only while the
\* invocation that launched it runs or after its quit() raised.
C21_AtMostOneLive ==
    /\ Cardinality(live) <= 1
    /\ pc = "returned" => live = {}
    /\ \A i \in live : i = driver /\ (i = acquired \/ pc = "raised")

\* The second invocation could not launch a browser and its teardown called
\* quit() again on the instance of the first, which had been quit.
C21_Witness ==
    /\ flowsStarted = 2
    /\ Occurs("launch_failed")
    /\ acquired = NoDriver
    /\ driver = 1
    /\ quitCalls[1] = 2

\* The submit step ran on a page of the given flow.
SubmitRan(f) == find_out.op = "submit" /\ find_in.flow = f
\* A div the status fallback may take: its text is one of the four words,
\* whatever the case, and it is enabled and displayed.
StatusWords == {<<"post">>, <<"posting">>, <<"share">>, <<"bagikan">>}
Eligible(b) == Lower(b.text) \in StatusWords /\ b.enabled /\ b.displayed

\* C22: in the status flow the divs are scanned exactly when no locator of
\* the post_button list resolves; the scan takes the first div whose text is
\* one of post, posting, share, bagikan whatever the case and that is enabled
\* and displayed; the forced click is issued exactly when a control was found
\* by either path, and otherwise the step raises without a click.
C22_StatusSubmitFallback ==
    SubmitRan("status") =>
        LET divs == find_in.divs
            resolved == \E i \in 1..Len(find_in.page) : find_in.page[i] = "clickable"
        IN  /\ find_out.scanned <=> ~resolved
            /\ ~find_out.scanned => find_out.chosen = 0 /\ find_out.located # 0
            /\ find_out.scanned =>
                  IF \E i \in 1..Len(divs) : Eligible(divs[i])
                  THEN /\ find_out.chosen \in 1..Len(divs)
                       /\ Eligible(divs[find_out.chosen])
                       /\ \A j \in 1..(find_out.chosen - 1) : ~Eligible(divs[j])
                  ELSE find_out.chosen = 0
            /\ find_out.clicked <=> (resolved \/ find_out.chosen # 0)
            /\ find_out.raised <=> ~find_out.clicked

\* No locator resolved, the first div read "Share now", the second "Post":
\* the second was clicked.
C22_Witness ==
    /\ SubmitRan("status")
    /\ find_out.scanned
    /\ find_in.divs = <<[text |-> <<"Share", " now">>, enabled |-> TRUE, displayed |-> TRUE],
                        [text |-> <<"Post">>, enabled |-> TRUE, displayed |-> TRUE]>>
    /\ find_out.chosen = 2
    /\ find_out.clicked

\* Neither path found a control: no click.
C22_NoneWitness ==
    /\ SubmitRan("status")
    /\ find_out.scanned
    /\ find_in.divs # <<>>
    /\ find_out.chosen = 0
    /\ find_out.raised /\ ~find_out.clicked

\* C23 as stated: the reel flow's fallback takes a div only if its text is
\* literally one of share, bagikan, post, publish, whatever the case.
C23_ReelFallbackLiteral ==
    (SubmitRan("reels") /\ find_out.chosen # 0) =>
        Lower(find_in.divs[find_out.chosen].text) \in
            {<<"share">>, <<"bagikan">>, <<"post">>, <<"publish">>}

\* What does hold: the reel flow's fallback takes the first div that is
\* enabled and displayed and whose text contains one of the four words.
C23_ReelFallbackContains ==
    (SubmitRan("reels") /\ find_out.scanned) =>
        LET divs == find_in.divs
            Fits(b) == /\ \E w \in {"share", "bagikan", "post", "publish"} :
                              Contains(Lower(b.text), w)
                       /\ b.enabled /\ b.displayed
        IN  IF \E i \in 1..Len(divs) : Fits(divs[i])
            THEN /\ find_out.chosen \in 1..Len(divs)
                 /\ Fits(divs[find_out.chosen])
                 /\ \A j \in 1..(find_out.chosen - 1) : ~Fits(divs[j])
            ELSE find_out.chosen = 0

\* The reel fallback took a div reading "Share now".
C23_Witness ==
    /\ SubmitRan("reels")
    /\ find_out.chosen = 1
    /\ find_in.divs[1].text = <<"Share", " now">>
    /\ find_out.clicked

C24_BlankWitness ==
    /\ find_out.op = "type"
    /\ find_in.text = <<" ">>
    /\ find_in.inputs # <<>>
    /\ ~find_out.looked
    /\ find_out.typed = 0

\* The status flow was given a media path that is on disk.
WithMedia ==
    flow = "status" /\ args.media_path # "" /\ PathExists(args.media_path)
\* Event i of the trace is directly followed by event ev.
Before(ev, i) == i < Len(trace) /\ trace[i + 1] = ev

\* C25: in the status flow with a media path on disk, an attach control that
\* does not resolve and a file input that does not resolve each leave the
\* flow running: after the attach lookup the file input is looked up, whether
\* or not the attach control was found and clicked; the path is fed only
\* right after a file input lookup; after a file input lookup that resolved
\* nothing the flow is at the text step, or past it when there is no text,
\* with no exception. Without such a
\* media path neither lookup is made.
C25_MediaStepOptional ==
    /\ WithMedia =>
          /\ \A i \in 1..Len(trace) :
                trace[i] = "find_photo_button" =>
                    \/ i = Len(trace) /\ pc = "file_input" /\ exc = NoExc
                    \/ Before("find_file_input", i)
                    \/ /\ Before("click_photo_button", i)
                       /\ \/ i + 1 = Len(trace) /\ pc = "file_input" /\ exc = NoExc
                          \/ Before("find_file_input", i + 1)
                    \/ Before("click_failed", i)
          /\ \A i \in 1..Len(trace) :
                trace[i] = "feed_file" => (i > 1 /\ trace[i - 1] = "find_file_input")
          /\ \A i \in 1..Len(trace) :
                trace[i] = "find_file_input" =>
                    \/ i = Len(trace) /\ pc \in {"add_text", "find_submit"} /\ exc = NoExc
                    \/ Before("feed_file", i) \/ Before("feed_failed", i)
                    \/ Before("find_text_inputs", i)
                    \/ Before("find_text_inputs_failed", i)
                    \/ Before("find_submit", i) \/ Before("find_submit_failed", i)
          /\ Count("find_photo_button") <= 1 /\ Count("find_file_input") <= 1
    /\ (flow = "status" /\ ~WithMedia) =>
          /\ ~Occurs("find_photo_button")
          /\ ~Occurs("find_file_input")
          /\ ~Occurs("feed_file")

\* A status flow with a media path on disk returned success = true although
\* the attach control was not found and no file was fed.
C25_Witness ==
    /\ WithMedia
    /\ Succeeded
    /\ Occurs("find_photo_button") /\ ~Occurs("click_photo_button")
    /\ Occurs("find_file_input") /\ ~Occurs("feed_file")
    /\ Occurs("submit_click")

\* The attach control was not found and the file input, looked up all the
\* same, was fed the path.
C25_FedWitness ==
    /\ WithMedia
    /\ ~Occurs("click_photo_button")
    /\ Occurs("feed_file")

\* The steps that act on the page's content.
ActingEvents == {"click_status_input", "click_photo_button", "feed_file",
                 "type_text", "click_next", "submit_click"}
\* The flow is in, or past, its except clause for a control that did not
\* resolve.
Unresolved(what) ==
    pc \in {"except", "finally", "returned"} /\ exc = NotFoundError(what)
\* No event after the last lookup acts on the page.
NothingAfter(lookup) ==
    \A i, j \in 1..Len(trace) :
        (trace[i] = lookup /\ i < j) => trace[j] \notin ActingEvents

\* C26: a result with success = true is built only right after the forced
\* click on a submit control that was resolved, in a flow whose first required
\* control was resolved too: the composer text box was found and clicked in
\* the status flow, the video was fed to the upload element in the reel flow.
\* When a required control does not resolve, nothing after that lookup acts on
\* the page and the result, once built, has success = false.
C26_SuccessNeedsControls ==
    /\ Succeeded =>
          /\ Count("submit_click") = 1
          /\ \E i \in 2..Len(trace) - 1 :
                /\ trace[i] = "submit_click" /\ trace[i + 1] = "return"
                /\ trace[i - 1] \in {"find_submit", "scan_buttons"}
          /\ flow = "status" => Occurs("click_status_input")
          /\ flow = "reels" => Occurs("feed_file")
          /\ ~Occurs("screenshot") /\ ~Occurs("screenshot_failed")
    /\ Unresolved("Status input not found") =>
          /\ NothingAfter("find_status_input")
          /\ \A i \in 1..Len(trace) : trace[i] \notin ActingEvents
    /\ Unresolved("Video upload element not found") =>
          /\ NothingAfter("scan_file_inputs")
          /\ \A i \in 1..Len(trace) : trace[i] \notin ActingEvents
    /\ Unresolved("Post button not found") =>
          NothingAfter("scan_buttons") /\ ~Occurs("submit_click")
    /\ Unresolved("Share button not found") =>
          NothingAfter("scan_buttons") /\ ~Occurs("submit_click")
    /\ (exc.kind = "NoSuchElementException" /\ result # NoResult) => ~result.success

\* A reel flow returned success = true: the video was fed and the share
\* control clicked.
C26_Witness ==
    /\ Succeeded
    /\ flow = "reels"
    /\ Occurs("feed_file")
    /\ Occurs("submit_click")
    /\ pc = "returned"

\* The composer text box did not resolve: the status flow returned
\* success = false and nothing was clicked, fed or typed.
C26_FailWitness ==
    /\ pc = "returned"
    /\ exc = NotFoundError("Status input not found")
    /\ Failed
    /\ ~Occurs("submit_click")

\* C27: within a flow invocation the cookie file differs from what it was
\* when the invocation began only if the login wait saw the login completed,
\* which calls save_cookies once. An invocation whose restored session was
\* accepted, whose login wait timed out, or that failed before or without the
\* login wait leaves the file, content and timestamp, as it was.
C27_FileWrittenOnlyOnLogin ==
    flow # "none" =>
        /\ ~Occurs("login_ok") => (cookieFile = file0 /\ saves = 0)
        /\ Occurs("login_timeout") => cookieFile = file0
        /\ ~Occurs("await_login") => cookieFile = file0
        /\ cookieFile # file0 =>
              /\ Count("login_ok") = 1
              /\ saves = 1
              /\ \/ Occurs("save") /\ cookieFile.kind = "dict" /\ cookieFile.timestamp = Now
                 \/ Occurs("save_failed") /\ cookieFile = CorruptFile
        /\ saves <= 1

\* A flow that found a saved session timed out in the login wait and
\* returned: the file is as it was.
C27_Witness ==
    /\ pc = "returned"
    /\ Occurs("login_timeout")
    /\ file0.kind = "dict" /\ file0.cookies # <<>>
    /\ cookieFile = file0

\* A flow whose restored session was accepted returned success = true with
\* the file as it was.
C27_RestoredWitness ==
    /\ Succeeded
    /\ Occurs("inject")
    /\ ~Occurs("await_login")
    /\ file0.kind = "dict"
    /\ cookieFile = file0

====
